---- MODULE Spec2Model ----
(***************************************************************************)
(* ATS-Scorer: the request pipeline around the provider call.              *)
(*                                                                         *)
(*   makeApiRequest (utils/apiHelpers.js, three copies in the repository)  *)
(*   analyzeResumeAgainstJob.requestFn (services/openai.js)                *)
(*   transformOpenAIResponse (utils/transformers.js)                       *)
(*   the Bottleneck limiter built by createRateLimiter                     *)
(*   the retry operation built by createRetryOperation                     *)
(*                                                                         *)
(* Time is counted in ticks of TickMs milliseconds.  A timer that is due   *)
(* fires before the clock moves on.                                        *)
(***************************************************************************)
EXTENDS Integers, Sequences, FiniteSets, TLC

VARIABLES
    helpers,      \* which copy of utils/apiHelpers.js the build loads
    rateLimit,    \* options.rateLimit handed to makeApiRequest
    retryOpts,    \* options.retry handed to makeApiRequest
    pc,           \* per call: position of the attempt callback
    limiter,      \* per call: the Bottleneck instance made at line 111
    operation,    \* per call: the retry operation made at line 112
    promise,      \* per call: the promise makeApiRequest returned
    lastError,    \* per call: what the latest failed attempt threw
    trail,        \* per call: summary of the failed attempts so far
    sinceStart,   \* per call: ticks since requestFn last started in its limiter
    startGap,     \* per call: ticks between the two latest starts in its limiter
    sinceAnyStart,\* ticks since requestFn last started in any call
    crossGap,     \* ticks between the two latest starts over all calls
    mlim,         \* the module-level limiter of the resume processor
    task,         \* per resume-processing task: its position
    submitted,    \* resume-processing tasks in submission order
    started,      \* resume-processing tasks in start order
    mSince,       \* ticks since a task last started in the module-level limiter
    mGap,         \* ticks between the two latest starts in the module-level limiter
    fmt,          \* the latest formatResponse(response, schema) call and its result
    cls,          \* the latest error caught around the provider call and what was thrown
    tfm,          \* the latest transformOpenAIResponse(response) call and its result
    keyUtils,     \* which copy of utils/apiKeyUtils.js the build loads
    localStorage, \* the browser's localStorage: the items the program uses
    envKey,       \* process.env.REACT_APP_OPENAI_API_KEY
    lastStored,   \* the latest storeApiKey or removeApiKey that returned, and its key
    lastRead,     \* the getApiKey() calls since then and what the latest returned
    processor,    \* which copy of services/resumeProcessor.js the build loads
    file,         \* the file the user uploaded (App state)
    jobDescription, \* the job description the user typed (App state)
    rpc,          \* position of processResume's attempt callback
    retryOp,      \* the retry operation of processResume
    result,       \* the promise processResume returned
    steps,        \* the steps the current attempt of processResume has begun
    ui,           \* App state: isLoading, submissionError, score, feedback, suggestions
    mdl,          \* the model item of localStorage and the latest modelUtils call
    cachedClient, \* resumeProcessor.js: the apiKey of cachedClient, null when there is none
    factory,      \* OpenAIClientFactory: #client (by its apiKey), #currentApiKey, latest call
    request,      \* the latest client handed out for a provider request
    events,       \* storage events of other tabs not yet delivered
    batch,        \* the latest batchProcessResumes call: its loop and what it returned
    app           \* the state of the AppContent component and its processResume call in flight

vars == <<helpers, rateLimit, retryOpts, pc, limiter, operation, promise,
          lastError, trail, sinceStart, startGap, sinceAnyStart, crossGap,
          mlim, task, submitted, started, mSince, mGap, fmt, cls, tfm,
          keyUtils, localStorage, envKey, lastStored, lastRead,
          processor, file, jobDescription, rpc, retryOp, result, steps, ui,
          mdl, cachedClient, factory, request, events, batch, app>>

pipelineVars == <<helpers, rateLimit, retryOpts, pc, limiter, operation, promise,
                  lastError, trail, sinceStart, startGap, sinceAnyStart, crossGap>>

limiterVars == <<mlim, task, submitted, started, mSince, mGap>>

pureVars == <<fmt, cls, tfm>>

credVars == <<keyUtils, localStorage, envKey, lastStored, lastRead>>

processVars == <<processor, file, jobDescription, rpc, retryOp, result, steps, ui>>

modelVars == <<mdl>>

clientVars == <<cachedClient, factory, request, events>>

batchVars == <<batch>>

viewVars == <<app>>

appVars == <<modelVars, clientVars, batchVars, viewVars>>

utilVars == <<pureVars, credVars, processVars, appVars>>

-----------------------------------------------------------------------------
(* Bounds of the model. *)

NumCalls == 2       \* makeApiRequest calls that may overlap
MaxRetries == 3     \* largest retry.retries a caller passes
NumTasks == 3       \* tasks submitted to the module-level limiter
MaxOverlapRetries == 1  \* largest retry.retries of calls that overlap

-----------------------------------------------------------------------------
(* Program constants. *)

TickMs == 200                 \* the smallest duration the program configures
DefaultMaxConcurrent == 5
DefaultMinTime == 200
DefaultRetries == 3
DefaultFactor == 2
DefaultMinTimeout == 1000
DefaultMaxTimeout == 5000

Undefined == "undefined"
NoError == [class |-> "none", type |-> "none", cause |-> "none"]

Calls == 1..NumCalls
Tasks == 1..NumTasks

Min(a, b) == IF a < b THEN a ELSE b
Max(a, b) == IF a > b THEN a ELSE b

RECURSIVE Pow(_, _)
Pow(b, e) == IF e = 0 THEN 1 ELSE b * Pow(b, e - 1)

\* an option the caller leaves out
NotGiven == -1

\* options.x || d, then ...options: a given value always wins, also a falsy one
OrDefault(v, d) == IF v = NotGiven THEN d ELSE v

-----------------------------------------------------------------------------
(* createRateLimiter and the Bottleneck instance it returns. *)

\* queue: jobs waiting for admission, oldest first
\* scheduled: admitted jobs waiting for their start time, <<job, wait>>
\* executing: jobs whose task is running
\* cooldown: nextRequest - now, never below 0
createRateLimiter(options) ==
    [maxConcurrent |-> OrDefault(options.maxConcurrent, DefaultMaxConcurrent),
     minTime       |-> OrDefault(options.minTime, DefaultMinTime) \div TickMs,
     queue         |-> <<>>,
     scheduled     |-> <<>>,
     executing     |-> {},
     cooldown      |-> 0]

Running(l) == Len(l.scheduled) + Cardinality(l.executing)

\* limiter.schedule(task): the job joins the queue
Schedule(l, job) == [l EXCEPT !.queue = Append(@, job)]

\* conditionsCheck without the capacity test
CanAdmitAlways(l) == l.queue # <<>>

\* conditionsCheck: capacity is maxConcurrent - running
CanAdmit(l) == l.queue # <<>> /\ Running(l) < l.maxConcurrent

\* the job _drainOne takes from the queue
NextJob(l) == Head(l.queue)

RestOfQueue(l) == Tail(l.queue)

\* __register__ that forgets nextRequest
RegisterNoWait(l) == 0

\* __register__: wait = max(nextRequest - now, 0)
RegisterWait(l) == Max(l.cooldown, 0)

\* _drainOne that takes the newest queued job
AdmitNewest(l) ==
    [l EXCEPT !.queue = SubSeq(@, 1, Len(@) - 1),
              !.scheduled = Append(@, <<l.queue[Len(l.queue)], RegisterWait(l)>>),
              !.cooldown = RegisterWait(l) + l.minTime]

\* _drainOne: register the first queued job and set its timer;
\* nextRequest = now + wait + minTime
Admit(l) ==
    [l EXCEPT !.queue = RestOfQueue(l),
              !.scheduled = Append(@, <<NextJob(l), RegisterWait(l)>>),
              !.cooldown = RegisterWait(l) + l.minTime]

\* a scheduled job's timer is due; timers fire in the order they were set
CanStart(l) == l.scheduled # <<>> /\ Head(l.scheduled)[2] = 0

StartJob(l) ==
    [l EXCEPT !.scheduled = Tail(@),
              !.executing = @ \cup {Head(l.scheduled)[1]}]

\* __free__: the job's task settled
Free(l, job) == [l EXCEPT !.executing = @ \ {job}]

\* one tick passes
LimiterTick(l) ==
    [l EXCEPT !.cooldown = Max(@ - 1, 0),
              !.scheduled = [i \in 1..Len(@) |-> <<@[i][1], Max(@[i][2] - 1, 0)>>]]

\* the limiter has something that must happen before the clock moves
LimiterUrgent(l) == CanAdmit(l) \/ CanStart(l)

\* the limiter waits for the clock
LimiterWaits(l) == l.cooldown > 0 \/ l.scheduled # <<>>

-----------------------------------------------------------------------------
(* createRetryOperation and the retry operation it returns. *)

createRetryOptions(options) ==
    [retries    |-> OrDefault(options.retries, DefaultRetries),
     factor     |-> OrDefault(options.factor, DefaultFactor),
     minTimeout |-> OrDefault(options.minTimeout, DefaultMinTimeout),
     maxTimeout |-> OrDefault(options.maxTimeout, DefaultMaxTimeout)]

\* a timeout that grows by minTimeout with every attempt
createTimeoutLinear(attempt, opts) ==
    Min(Max(opts.minTimeout, 1) * (attempt + 1), opts.maxTimeout)

\* retry.createTimeout without randomize, in milliseconds
createTimeout(attempt, opts) ==
    Min(Max(opts.minTimeout, 1) * Pow(opts.factor, attempt), opts.maxTimeout)

\* retry.timeouts: one timeout per retry (already ascending), here in ticks
Timeouts(opts) ==
    [i \in 1..opts.retries |-> createTimeout(i - 1, opts) \div TickMs]

\* retry.operation: attempts counts the calls of the attempt callback,
\* timer is the pending retry timer (-1: none)
createRetryOperation(options) ==
    [timeouts |-> Timeouts(createRetryOptions(options)),
     attempts |-> 0,
     timer    |-> -1]

\* operation.attempt(fn) and the retry timer both call fn(attempts)
Attempt(op) == [op EXCEPT !.attempts = @ + 1, !.timer = -1]

\* operation.retry(err) returns true iff a timeout is left
CanRetry(op) == op.timeouts # <<>>

\* operation.retry(err) when it returns true: it takes the next timeout
Retry(op) == [op EXCEPT !.timer = Head(op.timeouts), !.timeouts = Tail(@)]

OperationTick(op) == [op EXCEPT !.timer = IF @ > 0 THEN @ - 1 ELSE @]

-----------------------------------------------------------------------------
(* JavaScript values.  A string is its sequence of tokens, an array its     *)
(* sequence of elements, an object a function from its own keys.           *)

Num(n) == [t |-> "number", v |-> n]
Str(s) == [t |-> "string", v |-> s]
Arr(a) == [t |-> "array", v |-> a]
Obj(o) == [t |-> "object", v |-> o]
Undef == [t |-> "undefined", v |-> 0]
Null == [t |-> "null", v |-> 0]

Get(o, k) == IF k \in DOMAIN o THEN o[k] ELSE Undef

IsUndefined(x) == x.t = "undefined"

\* Array.isArray(value) ? 'array' : typeof value
TypeOf(x) == IF x.t = "null" THEN "object" ELSE x.t

\* value ?? other
Nullish(x, other) == IF x.t \in {"undefined", "null"} THEN other ELSE x

\* Array.prototype.join(sep) over an array of strings
RECURSIVE Join(_, _)
Join(a, sep) ==
    IF a = <<>> THEN <<>>
    ELSE IF Len(a) = 1 THEN a[1].v
    ELSE a[1].v \o <<sep>> \o Join(Tail(a), sep)

\* String.prototype.split("\n\n")
RECURSIVE Split(_, _)
Split(s, cur) ==
    IF s = <<>> THEN <<cur>>
    ELSE IF Head(s) = "\n\n" THEN <<cur>> \o Split(Tail(s), <<>>)
    ELSE Split(Tail(s), Append(cur, Head(s)))

IsSpace(tok) == tok \in {" ", "\n", "\n\n"}

\* String.prototype.trim
RECURSIVE TrimLeft(_)
TrimLeft(s) ==
    IF s # <<>> /\ IsSpace(Head(s)) THEN TrimLeft(Tail(s)) ELSE s

RECURSIVE TrimRight(_)
TrimRight(s) ==
    IF s # <<>> /\ IsSpace(s[Len(s)]) THEN TrimRight(SubSeq(s, 1, Len(s) - 1)) ELSE s

Trim(s) == TrimRight(TrimLeft(s))

-----------------------------------------------------------------------------
(* utils/transformers.js *)

RequiredFields ==
    <<"score", "matchPercentage", "keywordMatches", "missingKeywords",
      "suggestions", "detailedAnalysis">>

InRange(x) == x.t = "number" /\ x.v >= 0 /\ x.v <= 100

\* validateOpenAIResponse: the message of the error it throws, or "ok"
validateOpenAIResponse(response) ==
    IF \E i \in 1..Len(RequiredFields) : RequiredFields[i] \notin DOMAIN response
        THEN "Missing required field"
    ELSE IF ~InRange(response.matchPercentage) THEN "Invalid matchPercentage"
    ELSE IF ~InRange(response.score) THEN "Invalid score"
    ELSE IF \/ response.keywordMatches.t # "array"
            \/ response.missingKeywords.t # "array"
            \/ response.suggestions.t # "array"
        THEN "Invalid array fields"
    ELSE IF response.detailedAnalysis.t # "string" THEN "Invalid detailedAnalysis"
    ELSE "ok"

FeedbackItem(title, description) ==
    Obj([title |-> Str(<<title>>), description |-> Str(description)])

\* parseDetailedAnalysis: one item per paragraph that is not blank
parseDetailedAnalysis(analysis) ==
    LET paragraphs == Split(analysis, <<>>)
        kept == SelectSeq(paragraphs, LAMBDA p : Trim(p) # <<>>)
    IN [i \in 1..Len(kept) |-> FeedbackItem("Analysis", Trim(kept[i]))]

\* transformOpenAIResponse: [ok, value] or [ok, error]
transformOpenAIResponse(response) ==
    LET verdict == validateOpenAIResponse(response) IN
    IF verdict # "ok"
    THEN [ok |-> FALSE,
          error |-> [class |-> "Error", type |-> Undefined, cause |-> verdict]]
    ELSE [ok |-> TRUE,
          value |->
            [score |-> response.score,
             feedback |-> Arr(
                <<FeedbackItem("Matching Skills", Join(response.keywordMatches.v, ", ")),
                  FeedbackItem("Missing Skills", Join(response.missingKeywords.v, ", "))>>
                \o parseDetailedAnalysis(response.detailedAnalysis.v)),
             suggestions |-> response.suggestions,
             matchPercentage |-> response.matchPercentage,
             keywordMatches |-> response.keywordMatches,
             missingKeywords |-> response.missingKeywords,
             detailedAnalysis |-> response.detailedAnalysis]]

-----------------------------------------------------------------------------
(* services/openai.js: the provider call of one attempt and requestFn. *)

ProviderScores == {-1, 0, 100, 101}

RawResponse(score, matchPercentage) ==
    [score |-> Num(score),
     matchPercentage |-> Num(matchPercentage),
     keywordMatches |-> Arr(<<Str(<<"React">>)>>),
     missingKeywords |-> Arr(<<Str(<<"Python">>)>>),
     suggestions |-> Arr(<<Str(<<"Learn Python">>)>>),
     detailedAnalysis |-> Str(<<"Good fit.">>)]

\* what the provider (or the credential store) does in one attempt
ProviderOutcomes ==
    {[kind |-> "toolCall", status |-> 200, code |-> "none", score |-> s, matchPercentage |-> m] :
        s \in ProviderScores, m \in ProviderScores}
    \cup {[kind |-> "error", status |-> st, code |-> "none", score |-> 0, matchPercentage |-> 0] :
        st \in {401, 429, 500}}
    \cup {[kind |-> "error", status |-> 0, code |-> cd, score |-> 0, matchPercentage |-> 0] :
        cd \in {"ECONNREFUSED", "ENOTFOUND"}}
    \cup {[kind |-> k, status |-> 0, code |-> "none", score |-> 0, matchPercentage |-> 0] :
        k \in {"noToolCalls", "noKey"}}

ApiKeyError(type, cause) == [class |-> "ApiKeyError", type |-> type, cause |-> cause]
PlainError(cause) == [class |-> "Error", type |-> Undefined, cause |-> cause]
ValidationError(cause) == [class |-> "ValidationError", type |-> "VALIDATION_ERROR", cause |-> cause]

\* the catch block around client.chat.completions.create
ClassifyProviderError(o) ==
    IF o.status = 401 THEN ApiKeyError("AUTHENTICATION_ERROR", "status 401")
    ELSE IF o.status = 429 THEN ApiKeyError("RATE_LIMIT_ERROR", "status 429")
    ELSE IF o.code \in {"ECONNREFUSED", "ENOTFOUND"}
        THEN ApiKeyError("NETWORK_ERROR", "no connection")
    ELSE ApiKeyError("API_ERROR", "provider error")

\* requestFn: [ok, value] when it returns, [ok, error] when it throws
requestFn(o) ==
    IF o.kind = "noKey" THEN [ok |-> FALSE, error |-> ApiKeyError("GENERAL_ERROR", "key not found")]
    ELSE IF o.kind = "error" THEN [ok |-> FALSE, error |-> ClassifyProviderError(o)]
    ELSE IF o.kind = "noToolCalls"
        THEN [ok |-> FALSE, error |-> PlainError("Missing required tool calls")]
    ELSE LET t == transformOpenAIResponse(RawResponse(o.score, o.matchPercentage)) IN
         IF t.ok THEN t ELSE [ok |-> FALSE, error |-> PlainError(t.error.cause)]

\* the kind of the design's taxonomy an error thrown by requestFn stands for
Kind(e) ==
    IF e.cause = "key not found" THEN "MissingCredential"
    ELSE IF e.cause = "status 401" THEN "InvalidCredential"
    ELSE IF e.cause = "status 429" THEN "RateLimited"
    ELSE IF e.cause = "no connection" THEN "NetworkUnreachable"
    ELSE IF e.cause = "provider error" THEN "UnknownProviderError"
    ELSE IF e.cause = "Missing required tool calls" THEN "MalformedProviderResponse"
    ELSE IF e.cause \in {"Missing required field", "Invalid matchPercentage", "Invalid score",
                         "Invalid array fields", "Invalid detailedAnalysis"}
        THEN "SchemaViolation"
    ELSE "none"

Retryable(e) == Kind(e) \in {"RateLimited", "NetworkUnreachable", "UnknownProviderError"}

\* responseSchema of analyzeResumeAgainstJob: every field is required
ResponseSchemaKeys ==
    {"score", "matchPercentage", "keywordMatches", "missingKeywords", "suggestions",
     "detailedAnalysis", "feedback"}

-----------------------------------------------------------------------------
(* utils/apiHelpers.js, in the three copies the repository holds. *)

HelperCopies == {"apiHelpers.js", "part_010", "part_009"}

\* responseSchema of analyzeResumeAgainstJob, in the order of its entries
ResponseSchema ==
    <<[key |-> "score", type |-> "number", required |-> TRUE],
      [key |-> "matchPercentage", type |-> "number", required |-> TRUE],
      [key |-> "keywordMatches", type |-> "array", required |-> TRUE],
      [key |-> "missingKeywords", type |-> "array", required |-> TRUE],
      [key |-> "suggestions", type |-> "array", required |-> TRUE],
      [key |-> "detailedAnalysis", type |-> "string", required |-> TRUE],
      [key |-> "feedback", type |-> "array", required |-> TRUE]>>

\* Object.keys(schema)
SchemaKeys(schema) == {schema[i].key : i \in DOMAIN schema}

\* ValidationError(`Missing required field: ${key}`)
MissingFieldError(key) ==
    [class |-> "ValidationError", type |-> "VALIDATION_ERROR",
     cause |-> "Missing required field", field |-> key]

\* formatResponse that returns parsedResponse whatever the schema is
formatResponseUnfiltered(response, schema) ==
    [ok |-> TRUE, value |-> response]

\* formatResponse of apiHelpers.js and part_010: the schema's keys are copied
formatResponsePlain(response, schema) ==
    [ok |-> TRUE, value |-> [k \in SchemaKeys(schema) |-> Get(response, k)]]

\* the entries of the schema that are required and undefined in the response
MissingRequired(response, schema) ==
    {i \in DOMAIN schema : schema[i].required /\ IsUndefined(Get(response, schema[i].key))}

\* formatResponse of part_009: the first required field that is undefined is
\* an error; other fields are copied, null and undefined as config.defaultValue
formatResponseChecked(response, schema) ==
    IF MissingRequired(response, schema) # {}
    THEN [ok |-> FALSE,
          error |-> MissingFieldError(
              schema[CHOOSE i \in MissingRequired(response, schema) :
                         \A j \in MissingRequired(response, schema) : i <= j].key)]
    ELSE [ok |-> TRUE,
          value |-> [k \in SchemaKeys(schema) |-> Nullish(Get(response, k), Undef)]]

formatResponse(h, response, schema) ==
    IF h = "part_009" THEN formatResponseChecked(response, schema)
    ELSE formatResponsePlain(response, schema)

\* obj[key] = value
Put(obj, key, value) ==
    [k \in DOMAIN obj \cup {key} |-> IF k = key THEN value ELSE obj[k]]

\* an accumulator that is the response itself
ResponseObject(response, schema) == "response"

\* the object the fields are assigned to: the {} made for the call
NewObject(response, schema) == "formatted"

\* the loop over the schema's entries, as assignments to the object named
\* target of a heap that holds the call's objects; part_009 leaves the loop
\* when it throws
RECURSIVE AssignFields(_, _, _, _)
AssignFields(h, heap, target, entries) ==
    IF entries = <<>> THEN heap
    ELSE LET key == Head(entries).key
             value == Get(heap.response, key)
         IN IF h = "part_009" /\ Head(entries).required /\ IsUndefined(value)
            THEN heap
            ELSE AssignFields(h,
                    [heap EXCEPT ![target] =
                        Put(@, key, IF h = "part_009" THEN Nullish(value, Undef) ELSE value)],
                    target, Tail(entries))

\* the objects of a formatResponse call when the call is over
formatResponseHeap(h, response, schema) ==
    AssignFields(h, [response |-> response, schema |-> schema, formatted |-> <<>>],
                 NewObject(response, schema), schema)

\* handleApiError never returns: this is the error it throws
handleApiError(h, e) ==
    IF h = "apiHelpers.js" THEN PlainError(e.cause)
    ELSE IF e.class = "ApiKeyError" THEN e
    ELSE ApiKeyError("GENERAL_ERROR", e.cause)

\* the catch block of the attempt callback in apiHelpers.js:
\* retry if a timeout is left, else handleApiError throws before reject runs
CatchRetrying(h, op, e) ==
    IF CanRetry(op) THEN [act |-> "retry", error |-> e]
    ELSE [act |-> "throw", error |-> handleApiError(h, e)]

\* part_010: every error rejects
CatchRejecting(h, op, e) == [act |-> "reject", error |-> e]

\* part_009: typed errors reject, any other error goes to handleApiError
CatchTyped(h, op, e) ==
    IF e.class \in {"ApiKeyError", "ValidationError"} THEN [act |-> "reject", error |-> e]
    ELSE [act |-> "throw", error |-> handleApiError(h, e)]

Catch(h, op, e) ==
    IF h = "apiHelpers.js" THEN CatchRetrying(h, op, e)
    ELSE IF h = "part_010" THEN CatchRejecting(h, op, e)
    ELSE CatchTyped(h, op, e)

\* the attempt callback after limiter.schedule settled with r
AfterSchedule(h, op, r) ==
    IF r.ok
    THEN LET f == formatResponse(h, r.value, ResponseSchema) IN
         IF f.ok THEN [act |-> "resolve", value |-> f.value]
         ELSE IF h = "part_009" THEN [act |-> "reject", error |-> f.error]
         ELSE Catch(h, op, f.error)
    ELSE Catch(h, op, r.error)

-----------------------------------------------------------------------------
(* makeApiRequest as a state machine: one instance per call. *)

AnalysisRateLimit == [maxConcurrent |-> 5, minTime |-> 200]
AnalysisRetry == [retries |-> 3, factor |-> 2, minTimeout |-> 1000, maxTimeout |-> 5000]

RateLimitOptions == {AnalysisRateLimit, [AnalysisRateLimit EXCEPT !.maxConcurrent = 1]}
RetryOptions == {[AnalysisRetry EXCEPT !.retries = n] : n \in 0..MaxRetries}

NoLimiter == createRateLimiter(AnalysisRateLimit)
NoOperation == [timeouts |-> <<>>, attempts |-> 0, timer |-> -1]
NoValue == <<>>
Pending == [state |-> "pending", value |-> NoValue, error |-> NoError, resolves |-> 0, rejects |-> 0]

\* resolve and reject of the promise: only the first call settles it
Resolve(p, v) ==
    IF p.state = "pending"
    THEN [p EXCEPT !.state = "resolved", !.value = v, !.resolves = @ + 1]
    ELSE [p EXCEPT !.resolves = @ + 1]

Reject(p, e) ==
    IF p.state = "pending"
    THEN [p EXCEPT !.state = "rejected", !.error = e, !.rejects = @ + 1]
    ELSE [p EXCEPT !.rejects = @ + 1]

\* formatProcessingResponse of the resume processor: x || default
Falsy(x) ==
    \/ x.t = "undefined"
    \/ x.t = "null"
    \/ x.t = "number" /\ x.v = 0
    \/ x.t = "string" /\ x.v = <<>>

OrElse(x, d) == IF Falsy(x) THEN d ELSE x

formatProcessingResponse(analysis) ==
    [score |-> OrElse(Get(analysis, "score"), Num(0)),
     feedback |-> OrElse(Get(analysis, "feedback"), Arr(<<>>)),
     matchPercentage |-> OrElse(Get(analysis, "matchPercentage"), Num(0)),
     keywordMatches |-> OrElse(Get(analysis, "keywordMatches"), Arr(<<>>)),
     missingKeywords |-> OrElse(Get(analysis, "missingKeywords"), Arr(<<>>)),
     suggestions |-> OrElse(Get(analysis, "suggestions"), Arr(<<>>)),
     detailedAnalysis |-> OrElse(Get(analysis, "detailedAnalysis"), Str(<<>>))]

\* the summary of the failed attempts after one more failed with e
TrailAfter(tr, e) ==
    IF Kind(e) = "RateLimited" /\ tr \in {"none", "rateLimited"} THEN "rateLimited"
    ELSE IF Retryable(e) /\ tr \in {"none", "rateLimited", "retryable"} THEN "retryable"
    ELSE "mixed"

\* ticks counted up to cap; -1 while there was no start yet
Elapsed(x, cap) == IF x < 0 THEN x ELSE Min(x + 1, cap)

\* the limiter of services/resumeProcessor.js
ResumeRateLimit == [maxConcurrent |-> 2, minTime |-> 1000]

InitLimiter ==
    /\ mlim = createRateLimiter(ResumeRateLimit)
    /\ task = [t \in Tasks |-> "new"]
    /\ submitted = <<>>
    /\ started = <<>>
    /\ mSince = -1
    /\ mGap = -1

\* no utility function was called yet
NoFormat ==
    [called |-> FALSE, response |-> <<>>, schema |-> <<>>,
     result |-> [ok |-> FALSE, error |-> NoError],
     after |-> [response |-> <<>>, schema |-> <<>>, formatted |-> <<>>]]

NoClassification ==
    [called |-> FALSE, copy |-> "none", error |-> NoError, thrown |-> NoError]

NoTransform ==
    [called |-> FALSE, copy |-> "none", response |-> <<>>,
     result |-> [ok |-> FALSE, error |-> NoError]]

InitPure ==
    /\ fmt = NoFormat
    /\ cls = NoClassification
    /\ tfm = NoTransform

\* localStorage without the program's items
EmptyStorage == [openai_api_key |-> Null, api_key_source |-> Null]

NoRead == [called |-> FALSE, value |-> Null, reads |-> 0]

NoStore == [op |-> "none", key |-> Null, thrown |-> NoError]

InitCredIdle ==
    /\ keyUtils = "apiKeyUtils.js"
    /\ localStorage = EmptyStorage
    /\ envKey = Null
    /\ lastStored = NoStore
    /\ lastRead = NoRead

\* App state before a file is chosen
NoFile == [present |-> FALSE, mime |-> "none", ext |-> "none", size |-> 0]

InitialUi ==
    [phase |-> "idle", isLoading |-> FALSE, submissionError |-> Null,
     score |-> Null, feedback |-> Arr(<<>>), suggestions |-> Arr(<<>>)]

InitProcessIdle ==
    /\ processor = "part_007"
    /\ file = NoFile
    /\ jobDescription = <<>>
    /\ rpc = "idle"
    /\ retryOp = NoOperation
    /\ result = Pending
    /\ steps = <<>>
    /\ ui = InitialUi

\* no modelUtils call yet, no model item in localStorage
NoModel ==
    [item |-> Null, before |-> Null, op |-> "none", arg |-> "none",
     lastStored |-> "none", read |-> "none", thrown |-> NoError]

NoFactory == [client |-> Null, currentApiKey |-> Null, called |-> "none", failed |-> FALSE]

NoRequest ==
    [sent |-> FALSE, via |-> "none", key |-> Null, stored |-> Null,
     cachedBefore |-> Null, reused |-> FALSE]

InitClientIdle ==
    /\ cachedClient = Null
    /\ factory = NoFactory
    /\ request = NoRequest
    /\ events = 0

NoBatch ==
    [state |-> "idle", files |-> <<>>, index |-> 0, ends |-> <<>>,
     results |-> <<>>, errors |-> <<>>,
     returned |-> [results |-> <<>>, errors |-> "none", success |-> FALSE]]

\* AppContent as first rendered (App.jsx useState calls), nothing awaited
InitialApp ==
    [serviceInitialized |-> FALSE, file |-> Null, jobDescription |-> <<>>,
     score |-> Null, analysisResponse |-> Null, uploadError |-> Null,
     submissionError |-> Null, isLoading |-> FALSE,
     feedback |-> Arr(<<>>), suggestions |-> Arr(<<>>),
     awaiting |-> FALSE, argument |-> Null, settled |-> "none", fileKept |-> FALSE]

InitApp ==
    /\ mdl = NoModel
    /\ InitClientIdle
    /\ batch = NoBatch
    /\ app = InitialApp

InitUtils ==
    /\ InitPure
    /\ InitApp
    /\ InitCredIdle
    /\ InitProcessIdle

InitCalls ==
    /\ pc = [c \in Calls |-> "idle"]
    /\ limiter = [c \in Calls |-> NoLimiter]
    /\ operation = [c \in Calls |-> NoOperation]
    /\ promise = [c \in Calls |-> Pending]
    /\ lastError = [c \in Calls |-> NoError]
    /\ trail = [c \in Calls |-> "none"]
    /\ sinceStart = [c \in Calls |-> -1]
    /\ startGap = [c \in Calls |-> -1]
    /\ sinceAnyStart = -1
    /\ crossGap = -1

Init ==
    /\ helpers \in HelperCopies
    /\ rateLimit \in RateLimitOptions
    /\ retryOpts \in RetryOptions
    /\ InitCalls
    /\ InitLimiter
    /\ InitUtils

\* an attempt that calls requestFn itself instead of limiter.schedule
EnterAttemptDirect(l, op) == [l EXCEPT !.executing = @ \cup {op.attempts}]

\* where the first attempt and every retry enter: limiter.schedule
EnterAttempt(l, op) == Schedule(l, op.attempts)

\* makeApiRequest(requestFn, options): a limiter and a retry operation of its
\* own, then operation.attempt runs the callback, which awaits limiter.schedule
StartCall(c) ==
    /\ pc[c] = "idle"
    /\ \A d \in Calls : d < c => pc[d] # "idle"
    /\ LET op == Attempt(createRetryOperation(retryOpts)) IN
        /\ operation' = [operation EXCEPT ![c] = op]
        /\ limiter' = [limiter EXCEPT ![c] = EnterAttempt(createRateLimiter(rateLimit), op)]
    /\ pc' = [pc EXCEPT ![c] = "awaiting"]
    /\ UNCHANGED <<helpers, rateLimit, retryOpts, promise, lastError, trail,
                   sinceStart, startGap, sinceAnyStart, crossGap>>

MakeApiRequest(c) ==
    /\ StartCall(c)
    /\ UNCHANGED <<limiterVars, utilVars>>

\* Bottleneck admits the queued attempt
AdmitAttempt(c) ==
    /\ pc[c] = "awaiting"
    /\ CanAdmit(limiter[c])
    /\ limiter' = [limiter EXCEPT ![c] = Admit(@)]
    /\ UNCHANGED <<helpers, rateLimit, retryOpts, pc, operation, promise, lastError, trail,
                   sinceStart, startGap, sinceAnyStart, crossGap, limiterVars, utilVars>>

\* the admitted attempt's timer is due: requestFn starts
StartAttempt(c) ==
    /\ pc[c] = "awaiting"
    /\ CanStart(limiter[c])
    /\ limiter' = [limiter EXCEPT ![c] = StartJob(@)]
    /\ startGap' = [startGap EXCEPT ![c] = sinceStart[c]]
    /\ sinceStart' = [sinceStart EXCEPT ![c] = 0]
    /\ crossGap' = sinceAnyStart
    /\ sinceAnyStart' = 0
    /\ UNCHANGED <<helpers, rateLimit, retryOpts, pc, operation, promise, lastError, trail,
                   limiterVars, utilVars>>

\* requestFn settles; the rest of the attempt callback runs
FinishAttempt(c) ==
    /\ pc[c] = "awaiting"
    /\ limiter[c].executing # {}
    /\ \E o \in ProviderOutcomes :
        LET r == requestFn(o)
            a == AfterSchedule(helpers, operation[c], r)
        IN
        /\ limiter' = [limiter EXCEPT ![c] = Free(@, operation[c].attempts)]
        /\ lastError' = [lastError EXCEPT ![c] = IF r.ok THEN @ ELSE r.error]
        /\ trail' = [trail EXCEPT ![c] = IF r.ok THEN @ ELSE TrailAfter(@, r.error)]
        /\ promise' = [promise EXCEPT ![c] =
                IF a.act = "resolve" THEN Resolve(@, a.value)
                ELSE IF a.act = "reject" THEN Reject(@, a.error)
                ELSE @]
        /\ operation' = [operation EXCEPT ![c] = IF a.act = "retry" THEN Retry(@) ELSE @]
        /\ pc' = [pc EXCEPT ![c] =
                IF a.act = "retry" THEN "backoff"
                ELSE IF a.act = "throw" THEN "hung"
                ELSE "done"]
    /\ UNCHANGED <<helpers, rateLimit, retryOpts, sinceStart, startGap, sinceAnyStart,
                   crossGap, limiterVars, utilVars>>

\* the retry timer fires: the attempt callback runs again
RetryAttempt(c) ==
    /\ pc[c] = "backoff"
    /\ operation[c].timer = 0
    /\ LET op == Attempt(operation[c]) IN
        /\ operation' = [operation EXCEPT ![c] = op]
        /\ limiter' = [limiter EXCEPT ![c] = EnterAttempt(@, op)]
    /\ pc' = [pc EXCEPT ![c] = "awaiting"]
    /\ UNCHANGED <<helpers, rateLimit, retryOpts, promise, lastError, trail,
                   sinceStart, startGap, sinceAnyStart, crossGap, limiterVars, utilVars>>

Active(c) == pc[c] \in {"awaiting", "backoff"}

\* a timer is due or a queued attempt can be admitted
Urgent(c) ==
    \/ pc[c] = "awaiting" /\ LimiterUrgent(limiter[c])
    \/ pc[c] = "backoff" /\ operation[c].timer = 0

\* one tick of the clock in the calls that are under way
TickCalls ==
    /\ limiter' = [c \in Calls |-> IF Active(c) THEN LimiterTick(limiter[c]) ELSE limiter[c]]
    /\ operation' = [c \in Calls |-> IF Active(c) THEN OperationTick(operation[c]) ELSE operation[c]]
    /\ sinceStart' = [c \in Calls |->
            IF Active(c) THEN Elapsed(sinceStart[c], limiter[c].minTime) ELSE sinceStart[c]]
    /\ sinceAnyStart' = Elapsed(sinceAnyStart, createRateLimiter(rateLimit).minTime)
    /\ UNCHANGED <<helpers, rateLimit, retryOpts, pc, promise, lastError, trail,
                   startGap, crossGap>>

\* the clock: it moves only when nothing is due, and only while a timer runs
Tick ==
    /\ \A c \in Calls : ~Urgent(c)
    /\ \E c \in Calls :
        \/ pc[c] = "backoff"
        \/ pc[c] = "awaiting" /\ limiter[c].executing = {}
    /\ TickCalls
    /\ UNCHANGED <<limiterVars, utilVars>>

\* one makeApiRequest call, from the call to its end
Next ==
    \/ MakeApiRequest(1)
    \/ AdmitAttempt(1)
    \/ StartAttempt(1)
    \/ FinishAttempt(1)
    \/ RetryAttempt(1)
    \/ Tick

Spec == Init /\ [][Next]_vars

\* NumCalls calls with the same options that may overlap
InitOverlap ==
    /\ Init
    /\ retryOpts.retries <= MaxOverlapRetries

NextOverlap ==
    \/ \E c \in Calls : MakeApiRequest(c)
    \/ \E c \in Calls : AdmitAttempt(c)
    \/ \E c \in Calls : StartAttempt(c)
    \/ \E c \in Calls : FinishAttempt(c)
    \/ \E c \in Calls : RetryAttempt(c)
    \/ Tick

SpecOverlap == InitOverlap /\ [][NextOverlap]_vars

-----------------------------------------------------------------------------
(* One limiter instance and the tasks handed to limiter.schedule, as the    *)
(* resume processor does with its module-level limiter.                     *)

LimiterOptions ==
    {ResumeRateLimit, AnalysisRateLimit, [AnalysisRateLimit EXCEPT !.maxConcurrent = 1]}

InitOneLimiter ==
    /\ helpers = "apiHelpers.js"
    /\ rateLimit = AnalysisRateLimit
    /\ retryOpts = AnalysisRetry
    /\ InitCalls
    /\ \E o \in LimiterOptions : mlim = createRateLimiter(o)
    /\ task = [t \in Tasks |-> "new"]
    /\ submitted = <<>>
    /\ started = <<>>
    /\ mSince = -1
    /\ mGap = -1
    /\ InitUtils

\* limiter.schedule(async () => { extract; analyze; format })
SubmitTask(t) ==
    /\ task[t] = "new"
    /\ mlim' = Schedule(mlim, t)
    /\ submitted' = Append(submitted, t)
    /\ task' = [task EXCEPT ![t] = "queued"]
    /\ UNCHANGED <<started, mSince, mGap, pipelineVars, utilVars>>

\* Bottleneck admits the first queued task
AdmitTask ==
    /\ CanAdmit(mlim)
    /\ mlim' = Admit(mlim)
    /\ task' = [task EXCEPT ![NextJob(mlim)] = "scheduled"]
    /\ UNCHANGED <<submitted, started, mSince, mGap, pipelineVars, utilVars>>

\* the admitted task's timer is due: the task starts
StartTask ==
    /\ CanStart(mlim)
    /\ mlim' = StartJob(mlim)
    /\ task' = [task EXCEPT ![Head(mlim.scheduled)[1]] = "executing"]
    /\ started' = Append(started, Head(mlim.scheduled)[1])
    /\ mGap' = mSince
    /\ mSince' = 0
    /\ UNCHANGED <<submitted, pipelineVars, utilVars>>

\* the task's promise settles, after any duration
FinishTask(t) ==
    /\ t \in mlim.executing
    /\ mlim' = Free(mlim, t)
    /\ task' = [task EXCEPT ![t] = "done"]
    /\ UNCHANGED <<submitted, started, mSince, mGap, pipelineVars, utilVars>>

\* the clock: it moves only when nothing is due
LimiterClock ==
    /\ ~LimiterUrgent(mlim)
    /\ LimiterWaits(mlim) \/ (mSince >= 0 /\ mSince < mlim.minTime)
    /\ mlim' = LimiterTick(mlim)
    /\ mSince' = Elapsed(mSince, mlim.minTime)
    /\ UNCHANGED <<task, submitted, started, mGap, pipelineVars, utilVars>>

NextLimiter ==
    \/ \E t \in Tasks : SubmitTask(t)
    \/ AdmitTask
    \/ StartTask
    \/ \E t \in Tasks : FinishTask(t)
    \/ LimiterClock

SpecLimiter == InitOneLimiter /\ [][NextLimiter]_vars

-----------------------------------------------------------------------------
(* formatResponse(response, schema) as a function of its arguments. *)

\* the keys a response may carry; the schemas declare the first two
FormatKeys == {"score", "suggestions", "extra"}

\* what a field of a response may be: absent, or a value of one of these types
FormatTypes == {"undefined", "null", "number", "string", "array"}

FormatValue(type) ==
    IF type = "undefined" THEN Undef
    ELSE IF type = "null" THEN Null
    ELSE IF type = "number" THEN Num(50)
    ELSE IF type = "string" THEN Str(<<"high">>)
    ELSE Arr(<<>>)

ResponseOf(types) == [k \in FormatKeys |-> FormatValue(types[k])]

Schemas ==
    {<<[key |-> "score", type |-> "number", required |-> r]>> : r \in BOOLEAN}
    \cup {<<[key |-> "score", type |-> "number", required |-> r1],
            [key |-> "suggestions", type |-> "array", required |-> r2]>> :
          r1 \in BOOLEAN, r2 \in BOOLEAN}

\* a caller without calls in flight
InitNoCalls ==
    /\ rateLimit = AnalysisRateLimit
    /\ retryOpts = AnalysisRetry
    /\ InitCalls
    /\ InitLimiter

InitFormat ==
    /\ helpers \in HelperCopies
    /\ InitNoCalls
    /\ InitUtils

FormatResponse ==
    /\ ~fmt.called
    /\ \E types \in [FormatKeys -> FormatTypes], schema \in Schemas :
        fmt' = [called |-> TRUE, response |-> ResponseOf(types), schema |-> schema,
                result |-> formatResponse(helpers, ResponseOf(types), schema),
                after |-> formatResponseHeap(helpers, ResponseOf(types), schema)]
    /\ UNCHANGED <<pipelineVars, limiterVars, cls, tfm, credVars, appVars, processVars>>

NextFormat == FormatResponse

SpecFormat == InitFormat /\ [][NextFormat]_vars

\* the schema entries of the call in fmt
FmtEntries == {fmt.schema[i] : i \in DOMAIN fmt.schema}
FmtAbsent(e) == IsUndefined(fmt.response[e.key])
FmtMistyped(e) == ~IsUndefined(fmt.response[e.key]) /\ TypeOf(fmt.response[e.key]) # e.type
FmtSchemaError(e) ==
    /\ ~fmt.result.ok
    /\ fmt.result.error.class = "ValidationError"
    /\ "field" \in DOMAIN fmt.result.error
    /\ fmt.result.error.field = e.key

\* C11: when a required field of the schema is absent from the response,
\* formatResponse fails with a schema error naming a required absent field;
\* a returned object has every required field defined.
C11_RequiredFieldsPresent ==
    fmt.called =>
        /\ (\E e \in FmtEntries : e.required /\ FmtAbsent(e)) =>
                \E e \in FmtEntries : e.required /\ FmtAbsent(e) /\ FmtSchemaError(e)
        /\ fmt.result.ok =>
                \A e \in FmtEntries : e.required => ~IsUndefined(Get(fmt.result.value, e.key))

\* C12: when a field present in the response has another type than its schema
\* entry declares, formatting fails with a schema error naming such a field;
\* a returned object has no field of a type other than the declared one.
C12_TypesChecked ==
    fmt.called =>
        /\ (\E e \in FmtEntries : FmtMistyped(e)) =>
                \E e \in FmtEntries : (FmtMistyped(e) \/ (e.required /\ FmtAbsent(e)))
                                        /\ FmtSchemaError(e)
        /\ fmt.result.ok =>
                \A e \in FmtEntries :
                    ~IsUndefined(Get(fmt.result.value, e.key)) =>
                        TypeOf(Get(fmt.result.value, e.key)) = e.type

\* C13: when formatResponse succeeds, the keys of the formatted object are
\* the keys of the schema.
C13_OnlySchemaKeys ==
    (fmt.called /\ fmt.result.ok) => DOMAIN fmt.result.value = SchemaKeys(fmt.schema)

\* a response with an undeclared field was formatted and the field is gone
C13_Witness ==
    /\ fmt.called
    /\ fmt.result.ok
    /\ ~IsUndefined(fmt.response["extra"])
    /\ "extra" \notin DOMAIN fmt.result.value
    /\ ~IsUndefined(fmt.result.value["score"])

-----------------------------------------------------------------------------
(* The catch block around client.chat.completions.create, as a function of  *)
(* the error caught, in the copies of services/openai.js.                   *)

ClientCopies == {"resumeProcessor.js", "part_008"}

\* what may be thrown inside the try block
CaughtErrors ==
    {[class |-> c, type |-> Undefined, status |-> st, code |-> cd, message |-> m] :
        c \in {"Error", "ModelError"},
        st \in {0, 401, 429, 500},
        cd \in {"none", "ECONNREFUSED", "ENOTFOUND", "ETIMEDOUT"},
        m \in {<<>>, <<"boom">>}}
    \cup {[class |-> "ApiKeyError", type |-> "GENERAL_ERROR", status |-> st, code |-> cd,
           message |-> <<"OpenAI API key not found.">>] :
        st \in {0, 401}, cd \in {"none", "ECONNREFUSED"}}

Thrown(type, message) == [class |-> "ApiKeyError", type |-> type, message |-> message]
Rethrown(e) == [class |-> e.class, type |-> e.type, message |-> e.message]

\* the status and code tests, shared by the copies
ByStatusOrCode(e, otherwise) ==
    IF e.status = 401 THEN Thrown("AUTHENTICATION_ERROR", <<"Your OpenAI API key appears to be invalid or has expired.">>)
    ELSE IF e.status = 429 THEN Thrown("RATE_LIMIT_ERROR", <<"You have exceeded the API rate limit.">>)
    ELSE IF e.code \in {"ECONNREFUSED", "ENOTFOUND"}
        THEN Thrown("NETWORK_ERROR", <<"Unable to connect to OpenAI servers.">>)
    ELSE otherwise

\* resumeProcessor.js 384-405
catchLatest(e) ==
    IF e.class \in {"ModelError", "ApiKeyError"} THEN Rethrown(e)
    ELSE ByStatusOrCode(e,
            Thrown("API_ERROR",
                   <<"OpenAI API error: ">> \o
                   (IF e.message = <<>> THEN <<"Unknown error occurred">> ELSE e.message)))

\* part_008 110-129
catchOlder(e) ==
    ByStatusOrCode(e,
        IF e.class = "ApiKeyError" THEN Rethrown(e)
        ELSE Thrown("API_ERROR", <<"An error occurred while communicating with OpenAI.">>))

catchProviderError(copy, e) ==
    IF copy = "resumeProcessor.js" THEN catchLatest(e) ELSE catchOlder(e)

InitClassify ==
    /\ helpers = "apiHelpers.js"
    /\ InitNoCalls
    /\ InitUtils

CatchProviderError ==
    /\ ~cls.called
    /\ \E copy \in ClientCopies, e \in CaughtErrors :
        cls' = [called |-> TRUE, copy |-> copy, error |-> e,
                thrown |-> catchProviderError(copy, e)]
    /\ UNCHANGED <<pipelineVars, limiterVars, fmt, tfm, credVars, appVars, processVars>>

NextClassify == CatchProviderError

SpecClassify == InitClassify /\ [][NextClassify]_vars

\* an error of the provider, not one the client made itself
ProviderError(e) == e.class = "Error"

\* the type the first matching rule gives
FirstMatch(e) ==
    IF e.status = 401 THEN "AUTHENTICATION_ERROR"
    ELSE IF e.status = 429 THEN "RATE_LIMIT_ERROR"
    ELSE IF e.code = "ECONNREFUSED" \/ e.code = "ENOTFOUND" THEN "NETWORK_ERROR"
    ELSE "API_ERROR"

Carries(message, original) == \A i \in DOMAIN original : \E j \in DOMAIN message : message[j] = original[i]

\* C14: a provider error is thrown on as an ApiKeyError whose type is the one
\* of the first matching rule (401, 429, ECONNREFUSED or ENOTFOUND, other), and
\* the API_ERROR message carries the message of the original error.
C14_FirstMatchClassification ==
    (cls.called /\ ProviderError(cls.error)) =>
        /\ cls.thrown.class = "ApiKeyError"
        /\ cls.thrown.type = FirstMatch(cls.error)
        /\ cls.thrown.type = "API_ERROR" => Carries(cls.thrown.message, cls.error.message)

-----------------------------------------------------------------------------
(* processResume of services/resumeProcessor.js, called by handleSubmit of  *)
(* App.jsx.  Its analysis step is call 1 of makeApiRequest above.           *)

ProcessorCopies == {"part_007", "resumeProcessor.js"}

MAX_FILE_SIZE == 10 * 1024 * 1024

Files ==
    {[present |-> TRUE, mime |-> m, ext |-> x, size |-> sz] :
        m \in {"application/pdf", "image/png"},
        x \in {".pdf", ".png"},
        sz \in {MAX_FILE_SIZE, MAX_FILE_SIZE + 1}}

JobDescriptions == {<<" ">>, <<"Engineer">>}

StoredKey == [openai_api_key |-> Str(<<"sk-stored">>), api_key_source |-> Str(<<"localStorage">>)]

isPDF(f) == f.mime = "application/pdf" /\ f.ext = ".pdf"

isValidFileSize(f, maxSize) == f.size <= maxSize

\* an attempt callback without the two file checks
ValidateNothing(f) == "ok"

\* the two file checks of the attempt callback: the message thrown, or "ok"
ValidateFile(f) ==
    IF ~isPDF(f) THEN "Invalid PDF file format"
    ELSE IF ~isValidFileSize(f, MAX_FILE_SIZE) THEN "File size exceeds maximum limit"
    ELSE "ok"

\* getApiKey of the resume processor: localStorage.getItem, !apiKey
HasStoredKey(ls) == ls.openai_api_key.t = "string" /\ ls.openai_api_key.v # <<>>

\* the attempt callback up to limiter.schedule: what it throws, if anything
BeforeSchedule(ls, f) ==
    IF ~HasStoredKey(ls) THEN ApiKeyError("MISSING_KEY", "key not found")
    ELSE IF ValidateFile(f) # "ok" THEN PlainError(ValidateFile(f))
    ELSE NoError

\* error.message.includes("Invalid analysis") || includes("Failed to transform")
IsTransformFailure(e) ==
    e.cause \in {"Invalid matchPercentage", "Invalid score", "Invalid array fields",
                 "Invalid detailedAnalysis"}

\* the catch block of part_007
CatchLatest(op, e) ==
    IF e.class = "ApiKeyError" THEN [act |-> "reject", error |-> e]
    ELSE IF IsTransformFailure(e) THEN [act |-> "reject", error |-> PlainError(e.cause)]
    ELSE IF CanRetry(op) THEN [act |-> "retry", error |-> e]
    ELSE [act |-> "throw", error |-> e]

\* the catch block of resumeProcessor.js 200-211: if (error) reject(new ApiKeyError(...))
CatchOlder(op, e) ==
    [act |-> "reject",
     error |-> ApiKeyError(IF e.type = Undefined THEN "GENERAL_ERROR" ELSE e.type, e.cause)]

ProcessCatch(copy, op, e) ==
    IF copy = "part_007" THEN CatchLatest(op, e) ELSE CatchOlder(op, e)

\* formatProcessingResponse of resumeProcessor.js 150-160: the fields as they are
formatProcessingResponseOlder(analysis) ==
    [k \in ResponseSchemaKeys |-> Get(analysis, k)]

FormatAnalysis(copy, analysis) ==
    IF copy = "part_007"
    THEN LET r == formatProcessingResponse(analysis) IN [k \in DOMAIN r |-> r[k]]
    ELSE formatProcessingResponseOlder(analysis)

NoOptions ==
    [retries |-> NotGiven, factor |-> NotGiven, minTimeout |-> NotGiven, maxTimeout |-> NotGiven]

InitProcess ==
    /\ helpers \in HelperCopies
    /\ InitApp
    /\ rateLimit = AnalysisRateLimit
    /\ retryOpts = AnalysisRetry
    /\ InitCalls
    /\ InitLimiter
    /\ InitPure
    /\ keyUtils = "apiKeyUtils.js"
    /\ \/ localStorage = EmptyStorage
       \/ localStorage = StoredKey
    /\ envKey = Null
    /\ lastStored = [op |-> IF localStorage.openai_api_key.t = "null" THEN "none" ELSE "store",
                     key |-> localStorage.openai_api_key, thrown |-> NoError]
    /\ lastRead = NoRead
    /\ processor \in ProcessorCopies
    /\ file \in Files \cup {NoFile}
    /\ jobDescription \in JobDescriptions
    /\ rpc = "idle"
    /\ retryOp = NoOperation
    /\ result = Pending
    /\ steps = <<>>
    /\ ui = InitialUi

\* what the catch block does with e: the next rpc, retryOp and result
AfterCatch(e) ==
    LET a == ProcessCatch(processor, retryOp, e) IN
    /\ result' = IF a.act = "reject" THEN Reject(result, a.error) ELSE result
    /\ retryOp' = IF a.act = "retry" THEN Retry(retryOp) ELSE retryOp
    /\ rpc' = IF a.act = "retry" THEN "backoff"
              ELSE IF a.act = "throw" THEN "hung"
              ELSE "done"

\* catch and finally of handleSubmit
ShowError(message) ==
    [phase |-> "finished", isLoading |-> FALSE, submissionError |-> Str(<<message>>),
     score |-> Null, feedback |-> Arr(<<>>), suggestions |-> Arr(<<>>)]

\* handleSubmit up to its await: the two checks, then processResume(file, jobDescription),
\* which makes the retry operation and runs the attempt callback
HandleSubmit ==
    /\ ui.phase = "idle"
    /\ IF ~file.present
       THEN /\ ui' = ShowError("Please upload a resume file")
            /\ UNCHANGED <<rpc, retryOp>>
       ELSE IF Trim(jobDescription) = <<>>
       THEN /\ ui' = ShowError("Please provide a job description")
            /\ UNCHANGED <<rpc, retryOp>>
       ELSE /\ ui' = [ui EXCEPT !.phase = "loading", !.isLoading = TRUE,
                                !.submissionError = Null]
            /\ retryOp' = Attempt(createRetryOperation(NoOptions))
            /\ rpc' = "attempt"
    /\ UNCHANGED <<processor, file, jobDescription, result, steps,
                   pipelineVars, limiterVars, pureVars, credVars, appVars>>

\* the attempt callback: getApiKey, isPDF, isValidFileSize, limiter.schedule
BeginAttempt ==
    /\ rpc = "attempt"
    /\ steps' = <<"validate">>
    /\ IF BeforeSchedule(localStorage, file) = NoError
       THEN /\ mlim' = Schedule(mlim, retryOp.attempts)
            /\ rpc' = "queued"
            /\ UNCHANGED <<retryOp, result>>
       ELSE /\ AfterCatch(BeforeSchedule(localStorage, file))
            /\ UNCHANGED mlim
    /\ UNCHANGED <<processor, file, jobDescription, ui, task, submitted, started, mSince, mGap,
                   pipelineVars, pureVars, credVars, appVars>>

\* the module-level limiter admits the job
AdmitProcessing ==
    /\ rpc = "queued"
    /\ CanAdmit(mlim)
    /\ mlim' = Admit(mlim)
    /\ UNCHANGED <<task, submitted, started, mSince, mGap,
                   pipelineVars, pureVars, credVars, appVars, processVars>>

\* the job starts: extractTextFromPDF is called
StartExtraction ==
    /\ rpc = "queued"
    /\ CanStart(mlim)
    /\ mlim' = StartJob(mlim)
    /\ rpc' = "extracting"
    /\ steps' = Append(steps, "extract")
    /\ UNCHANGED <<processor, file, jobDescription, retryOp, result, ui,
                   task, submitted, started, mSince, mGap,
                   pipelineVars, pureVars, credVars, appVars>>

\* extractTextFromPDF resolves and analyzeResumeAgainstJob calls makeApiRequest
FinishExtraction ==
    /\ rpc = "extracting"
    /\ rpc' = "analyzing"
    /\ steps' = Append(steps, "analyze")
    /\ StartCall(1)
    /\ UNCHANGED <<processor, file, jobDescription, retryOp, result, ui,
                   limiterVars, pureVars, credVars, appVars>>

\* extractTextFromPDF fails on each of its own attempts: its handleApiError
\* throws before its reject, its promise never settles
ExtractionNeverSettles ==
    /\ rpc = "extracting"
    /\ rpc' = "hung"
    /\ UNCHANGED <<processor, file, jobDescription, retryOp, result, steps, ui,
                   pipelineVars, limiterVars, pureVars, credVars, appVars>>

\* the promise of analyzeResumeAgainstJob settled: the job ends, then
\* resolve(result) or the catch block
AnalysisSettled ==
    /\ rpc = "analyzing"
    /\ promise[1].state # "pending"
    /\ mlim' = Free(mlim, retryOp.attempts)
    /\ IF promise[1].state = "resolved"
       THEN /\ result' = Resolve(result, FormatAnalysis(processor, promise[1].value))
            /\ rpc' = "done"
            /\ steps' = Append(steps, "transform")
            /\ UNCHANGED retryOp
       ELSE /\ AfterCatch(promise[1].error)
            /\ UNCHANGED steps
    /\ UNCHANGED <<processor, file, jobDescription, ui, task, submitted, started, mSince, mGap,
                   pipelineVars, pureVars, credVars, appVars>>

\* the retry timer of processResume fires: the attempt callback runs again
RetryProcessing ==
    /\ rpc = "backoff"
    /\ retryOp.timer = 0
    /\ retryOp' = Attempt(retryOp)
    /\ rpc' = "attempt"
    /\ steps' = <<>>
    /\ pc' = [pc EXCEPT ![1] = "idle"]
    /\ limiter' = [limiter EXCEPT ![1] = NoLimiter]
    /\ operation' = [operation EXCEPT ![1] = NoOperation]
    /\ promise' = [promise EXCEPT ![1] = Pending]
    /\ lastError' = [lastError EXCEPT ![1] = NoError]
    /\ trail' = [trail EXCEPT ![1] = "none"]
    /\ sinceStart' = [sinceStart EXCEPT ![1] = -1]
    /\ startGap' = [startGap EXCEPT ![1] = -1]
    /\ UNCHANGED <<helpers, rateLimit, retryOpts, sinceAnyStart, crossGap,
                   processor, file, jobDescription, result, ui,
                   limiterVars, pureVars, credVars, appVars>>

\* handleSubmit after its await: the setters, or catch, then finally
AfterProcessResume ==
    /\ ui.phase = "loading"
    /\ result.state # "pending"
    /\ ui' = IF result.state = "resolved"
             THEN [phase |-> "finished", isLoading |-> FALSE, submissionError |-> Null,
                   score |-> result.value.score,
                   feedback |-> OrElse(result.value.feedback, Arr(<<>>)),
                   suggestions |-> OrElse(result.value.suggestions, Arr(<<>>))]
             ELSE ShowError(result.error.cause)
    /\ UNCHANGED <<processor, file, jobDescription, rpc, retryOp, result, steps,
                   pipelineVars, limiterVars, pureVars, credVars, appVars>>

\* the clock: it moves only when nothing is due, and only while a timer runs
ProcessTick ==
    /\ ~Urgent(1)
    /\ ~(rpc = "queued" /\ LimiterUrgent(mlim))
    /\ ~(rpc = "backoff" /\ retryOp.timer = 0)
    /\ \/ pc[1] = "backoff"
       \/ pc[1] = "awaiting" /\ limiter[1].executing = {}
       \/ rpc \in {"queued", "backoff"}
    /\ TickCalls
    /\ mlim' = LimiterTick(mlim)
    /\ retryOp' = OperationTick(retryOp)
    /\ UNCHANGED <<processor, file, jobDescription, rpc, result, steps, ui,
                   task, submitted, started, mSince, mGap, pureVars, credVars, appVars>>

NextProcess ==
    \/ HandleSubmit
    \/ BeginAttempt
    \/ AdmitProcessing
    \/ StartExtraction
    \/ FinishExtraction
    \/ ExtractionNeverSettles
    \/ AdmitAttempt(1)
    \/ StartAttempt(1)
    \/ FinishAttempt(1)
    \/ RetryAttempt(1)
    \/ AnalysisSettled
    \/ RetryProcessing
    \/ AfterProcessResume
    \/ ProcessTick

SpecProcess == InitProcess /\ [][NextProcess]_vars

-----------------------------------------------------------------------------
(* The request pipeline: what a call's caller sees. *)

Ended(c) == pc[c] \in {"done", "hung"}
Retries == createRetryOptions(retryOpts).retries
FailedEveryTimeRetryably(c) ==
    Ended(c) /\ promise[c].state # "resolved" /\ trail[c] \in {"rateLimited", "retryable"}
FailedNonRetryably(c) == lastError[c] # NoError /\ ~Retryable(lastError[c])
OutOfRangeResponse(c) == lastError[c].cause \in {"Invalid score", "Invalid matchPercentage"}

\* C1: when the attempt callback of a makeApiRequest call has ended and no
\* retry is pending, the returned promise is settled, and resolve and reject
\* were called once altogether.
C1_SettlesExactlyOnce ==
    \A c \in Calls :
        /\ promise[c].resolves + promise[c].rejects <= 1
        /\ Ended(c) => promise[c].state # "pending"

\* C2: a call whose every attempt failed with a retryable kind has made
\* retries + 1 attempts when it ends, and is rejected with the last error.
C2_RetryBudget ==
    \A c \in Calls :
        FailedEveryTimeRetryably(c) =>
            /\ operation[c].attempts = Retries + 1
            /\ promise[c].state = "rejected"
            /\ promise[c].error = lastError[c]

\* C3: an attempt that failed with a non-retryable kind ends the call: no
\* retry is scheduled and the call is rejected with that error.
C3_NonRetryableIsTerminal ==
    \A c \in Calls :
        FailedNonRetryably(c) =>
            /\ pc[c] = "done"
            /\ promise[c].state = "rejected"
            /\ promise[c].error = lastError[c]

\* C4: with 3 retries, HTTP 429 on the first two attempts does not end the
\* call, and when the third attempt succeeds the call is resolved with the
\* formatted response after exactly 3 attempts.
C4_ThirdAttemptSucceeds ==
    Retries = 3 =>
        \A c \in Calls :
            trail[c] = "rateLimited" =>
                /\ (operation[c].attempts <= 2 /\ promise[c].state # "resolved") => ~Ended(c)
                /\ (pc[c] = "done" /\ operation[c].attempts = 3 /\ promise[c].state # "rejected")
                    => /\ promise[c].state = "resolved"
                       /\ DOMAIN promise[c].value = ResponseSchemaKeys

\* C6: over all calls made with the same rateLimit options, no more than
\* maxConcurrent executions of requestFn are in flight, and two consecutive
\* starts of requestFn are at least minTime apart.
InFlight == {c \in Calls : limiter[c].executing # {}}
C6_SharedAdmission ==
    /\ Cardinality(InFlight) <= createRateLimiter(rateLimit).maxConcurrent
    /\ crossGap = -1 \/ crossGap >= createRateLimiter(rateLimit).minTime

\* C7: requestFn starts only as the job the call's limiter admitted and whose
\* timer is due; every attempt, the first and each retry, joins that limiter's
\* queue; and the limiter's bounds hold for retries as for first attempts.
C7_AttemptsThroughLimiter ==
    /\ [](\A c \in Calls :
            /\ Running(limiter[c]) <= limiter[c].maxConcurrent
            /\ startGap[c] = -1 \/ startGap[c] >= limiter[c].minTime
            /\ limiter[c].executing \subseteq {operation[c].attempts})
    /\ [][\A c \in Calls :
            /\ limiter[c].executing' \subseteq limiter[c].executing \cup
                    (IF CanStart(limiter[c]) THEN {Head(limiter[c].scheduled)[1]} ELSE {})
            /\ operation[c].attempts' # operation[c].attempts =>
                    /\ limiter[c].queue' # <<>>
                    /\ limiter[c].queue'[Len(limiter[c].queue')] = operation[c].attempts'
         ]_vars

\* a retry is executing inside the limiter
C7_Witness ==
    \E c \in Calls : operation[c].attempts >= 2 /\ limiter[c].executing = {operation[c].attempts}

\* C10: a resolved analysis, also after formatProcessingResponse, has score and
\* matchPercentage in [0,100], and a response outside that range makes the
\* call fail with a schema error.
C10_ScoresInRange ==
    \A c \in Calls :
        /\ promise[c].state = "resolved" =>
            /\ InRange(promise[c].value.score)
            /\ InRange(promise[c].value.matchPercentage)
            /\ InRange(formatProcessingResponse(promise[c].value).score)
            /\ InRange(formatProcessingResponse(promise[c].value).matchPercentage)
        /\ OutOfRangeResponse(c) =>
            /\ promise[c].state = "rejected"
            /\ Kind(promise[c].error) = "SchemaViolation"

-----------------------------------------------------------------------------
(* One limiter instance. *)

\* C5: no more than maxConcurrent tasks of one limiter execute at once.
C5_ConcurrencyBound == Cardinality(mlim.executing) <= mlim.maxConcurrent

\* the resume processor's limiter is full and a task waits
C5_Witness ==
    /\ mlim.maxConcurrent = 2
    /\ Cardinality(mlim.executing) = 2
    /\ mlim.queue # <<>>

\* C8: tasks start in the order they were submitted.
C8_FifoAdmission == started = SubSeq(submitted, 1, Len(started))

\* two tasks started and the later one finished first
C8_Witness ==
    /\ Len(started) >= 2
    /\ task[started[1]] = "executing"
    /\ task[started[2]] = "done"

\* C9: two consecutive starts are at least minTime apart.
C9_Spacing == mGap = -1 \/ mGap >= mlim.minTime

\* two tasks run at once, started minTime apart, in the resume processor's limiter
C9_Witness ==
    /\ mlim.minTime * TickMs = 1000
    /\ mGap >= 0
    /\ Cardinality(mlim.executing) = 2

-----------------------------------------------------------------------------
(* processResume and handleSubmit: what the user sees. *)

\* nothing will settle the promise of processResume any more
ProcessStuck == rpc = "hung" \/ (rpc = "analyzing" /\ pc[1] = "hung")

\* handleSubmit returned, or waits for a promise that never settles
SubmissionOver == ui.phase = "finished" \/ (ui.phase = "loading" /\ ProcessStuck)

StepOrder == <<"validate", "extract", "analyze", "transform">>

\* C15: without a stored key processResume rejects with MISSING_KEY on its
\* first attempt and never calls the analysis; an attempt of
\* analyzeResumeAgainstJob that finds no key throws MISSING_KEY, which ends
\* the call with a rejection of kind MissingCredential and no retry.
C15_MissingCredentialIsTerminal ==
    /\ (~HasStoredKey(localStorage) /\ rpc \notin {"idle", "attempt"}) =>
            /\ rpc = "done"
            /\ result.state = "rejected"
            /\ result.error.type = "MISSING_KEY"
            /\ retryOp.attempts = 1
            /\ pc[1] = "idle"
            /\ steps = <<"validate">>
    /\ \A c \in Calls :
        lastError[c].cause = "key not found" =>
            /\ lastError[c].type = "MISSING_KEY"
            /\ pc[c] = "done"
            /\ promise[c].state = "rejected"
            /\ Kind(promise[c].error) = "MissingCredential"

\* C16: when the analysis call was rejected and processResume has ended,
\* processResume is rejected with an error of the same kind, class and type.
C16_TerminalErrorPropagates ==
    (promise[1].state = "rejected" /\ rpc \in {"done", "hung"}) =>
        /\ result.state = "rejected"
        /\ Kind(result.error) = Kind(promise[1].error)
        /\ result.error.class = promise[1].error.class
        /\ result.error.type = promise[1].error.type

\* C17: when a submission is over and did not succeed, isLoading is false,
\* submissionError holds a message, and score, feedback and suggestions are
\* cleared.
C17_FailureLeavesLoading ==
    (SubmissionOver /\ result.state # "resolved") =>
        /\ ~ui.isLoading
        /\ ui.submissionError.t = "string"
        /\ ui.submissionError.v # <<>>
        /\ ui.score.t = "null"
        /\ ui.feedback.v = <<>>
        /\ ui.suggestions.v = <<>>

\* C19: the steps of an attempt begin in the order validate, extract,
\* analyze, transform; extraction begins only for a file that is a PDF of at
\* most 10 MiB; the analysis call is made only after extraction; a file that
\* fails validation reaches neither the limiter nor the analysis call.
C19_StepOrder ==
    /\ Len(steps) <= 4
    /\ steps = SubSeq(StepOrder, 1, Len(steps))
    /\ Len(steps) >= 2 =>
            /\ file.mime = "application/pdf"
            /\ file.ext = ".pdf"
            /\ file.size <= 10 * 1024 * 1024
    /\ pc[1] # "idle" => Len(steps) >= 3
    /\ ~(isPDF(file) /\ file.size <= 10 * 1024 * 1024) =>
            /\ pc[1] = "idle"
            /\ Running(mlim) = 0
            /\ mlim.queue = <<>>

\* a later attempt of processResume ran the four steps
C19_Witness ==
    /\ retryOp.attempts >= 2
    /\ steps = StepOrder
    /\ result.state = "resolved"

-----------------------------------------------------------------------------
(* transformOpenAIResponse as a function of its argument, in both copies   *)
(* of utils/transformers.js.                                               *)

TransformerCopies == {"part_014", "part_013"}

\* item => typeof item !== 'string' || !item.trim()
IsBlankItem(item) == item.t # "string" \/ Trim(item.v) = <<>>

HasBlankItem(a) == \E i \in 1..Len(a) : IsBlankItem(a[i])

\* validateOpenAIResponse of part_013: the message of the error, or "ok"
validateOpenAIResponseStrict(response) ==
    IF \E i \in 1..Len(RequiredFields) : RequiredFields[i] \notin DOMAIN response
        THEN "Missing required field"
    ELSE IF ~InRange(response.matchPercentage) THEN "Invalid matchPercentage"
    ELSE IF ~InRange(response.score) THEN "Invalid score"
    ELSE IF response.keywordMatches.t # "array" \/ HasBlankItem(response.keywordMatches.v)
        THEN "Invalid keywordMatches"
    ELSE IF response.missingKeywords.t # "array" \/ HasBlankItem(response.missingKeywords.v)
        THEN "Invalid missingKeywords"
    ELSE IF response.suggestions.t # "array" \/ HasBlankItem(response.suggestions.v)
        THEN "Invalid suggestions"
    ELSE IF response.detailedAnalysis.t # "string" \/ Trim(response.detailedAnalysis.v) = <<>>
        THEN "Invalid detailedAnalysis"
    ELSE "ok"

Digits == <<"1", "2", "3", "4", "5", "6", "7", "8", "9">>

\* `Analysis Part ${index + 1}`
PartTitle(index) == <<"Analysis Part ", Digits[index + 1]>>

\* parseDetailedAnalysis of part_013, for a string that is not blank
parseDetailedAnalysisStrict(analysis) ==
    LET split == Split(analysis, <<>>)
        trimmed == [i \in 1..Len(split) |-> Trim(split[i])]
        paragraphs == SelectSeq(trimmed, LAMBDA p : p # <<>>)
    IN [i \in 1..Len(paragraphs) |->
            Obj([title |-> Str(PartTitle(i - 1)), description |-> Str(paragraphs[i])])]

transformOpenAIResponseStrict(response) ==
    LET verdict == validateOpenAIResponseStrict(response) IN
    IF verdict # "ok"
    THEN [ok |-> FALSE,
          error |-> [class |-> "Error", type |-> Undefined, cause |-> verdict]]
    ELSE [ok |-> TRUE,
          value |->
            [score |-> response.score,
             feedback |-> Arr(
                <<FeedbackItem("Matching Skills", Join(response.keywordMatches.v, ", ")),
                  FeedbackItem("Missing Skills", Join(response.missingKeywords.v, ", "))>>
                \o parseDetailedAnalysisStrict(response.detailedAnalysis.v)),
             suggestions |-> response.suggestions,
             matchPercentage |-> response.matchPercentage,
             keywordMatches |-> response.keywordMatches,
             missingKeywords |-> response.missingKeywords,
             detailedAnalysis |-> response.detailedAnalysis]]

Transform(copy, response) ==
    IF copy = "part_013" THEN transformOpenAIResponseStrict(response)
    ELSE transformOpenAIResponse(response)

MaxAnalysisLen == 3

MaxKeywords == 2

AnalysisTokens == {"Strong skills.", " ", "\n\n"}

KeywordTokens == {"React", "Node.js"}

SeqsUpTo(S, n) == UNION {[1..k -> S] : k \in 0..n}

StrArr(words) == Arr([i \in 1..Len(words) |-> Str(<<words[i]>>)])

TransformScores == {0, 85, 101}

\* the argument of transformOpenAIResponse; without detailedAnalysis when
\* the response is not complete
TransformArgument(score, matches, missing, analysis, complete) ==
    LET full == [score |-> Num(score),
                 matchPercentage |-> Num(85),
                 keywordMatches |-> StrArr(matches),
                 missingKeywords |-> StrArr(missing),
                 suggestions |-> StrArr(<<"Add cloud experience">>),
                 detailedAnalysis |-> Str(analysis)]
    IN IF complete THEN full
       ELSE [k \in DOMAIN full \ {"detailedAnalysis"} |-> full[k]]

InitTransform ==
    /\ helpers \in HelperCopies
    /\ InitNoCalls
    /\ InitUtils

TransformResponse ==
    /\ ~tfm.called
    /\ \E copy \in TransformerCopies, score \in TransformScores,
          matches \in SeqsUpTo(KeywordTokens, MaxKeywords),
          missing \in {<<>>, <<"Python">>, <<"Python", "AWS">>},
          analysis \in SeqsUpTo(AnalysisTokens, MaxAnalysisLen),
          complete \in BOOLEAN :
        LET response == TransformArgument(score, matches, missing, analysis, complete) IN
        tfm' = [called |-> TRUE, copy |-> copy, response |-> response,
                result |-> Transform(copy, response)]
    /\ UNCHANGED <<pipelineVars, limiterVars, fmt, cls, credVars, appVars, processVars>>

NextTransform == TransformResponse

SpecTransform == InitTransform /\ [][NextTransform]_vars

\* a response with the six fields of the tool schema, each of its type and
\* the two numbers between 0 and 100
ValidProviderResponse(r) ==
    /\ \A i \in 1..Len(RequiredFields) : RequiredFields[i] \in DOMAIN r
    /\ InRange(r.score)
    /\ InRange(r.matchPercentage)
    /\ \A k \in {"keywordMatches", "missingKeywords", "suggestions"} :
            r[k].t = "array" /\ \A i \in 1..Len(r[k].v) : r[k].v[i].t = "string"
    /\ r.detailedAnalysis.t = "string"

\* the paragraphs of a text that are not blank, trimmed, in order
NonBlankParagraphs(text) ==
    LET split == Split(text, <<>>) IN
    SelectSeq([i \in 1..Len(split) |-> Trim(split[i])], LAMBDA p : p # <<>>)

\* C18: for a valid response transformOpenAIResponse returns the six fields
\* unchanged and a feedback list of "Matching Skills" (the matches joined by
\* ", "), "Missing Skills" (the missing keywords joined by ", ") and one
\* entry titled "Analysis" for every paragraph that is not blank, in order.
C18_TransformAddsFeedback ==
    (tfm.called /\ ValidProviderResponse(tfm.response)) =>
        /\ tfm.result.ok
        /\ \A i \in 1..Len(RequiredFields) :
                tfm.result.value[RequiredFields[i]] = tfm.response[RequiredFields[i]]
        /\ LET feedback == tfm.result.value.feedback.v
               paragraphs == NonBlankParagraphs(tfm.response.detailedAnalysis.v)
           IN /\ Len(feedback) = 2 + Len(paragraphs)
              /\ feedback[1].v.title.v = <<"Matching Skills">>
              /\ feedback[1].v.description.v = Join(tfm.response.keywordMatches.v, ", ")
              /\ feedback[2].v.title.v = <<"Missing Skills">>
              /\ feedback[2].v.description.v = Join(tfm.response.missingKeywords.v, ", ")
              /\ \A j \in 1..Len(paragraphs) :
                    /\ feedback[2 + j].v.title.v = <<"Analysis">>
                    /\ feedback[2 + j].v.description.v = paragraphs[j]

-----------------------------------------------------------------------------
(* utils/apiKeyUtils.js: the key in localStorage, in both copies.           *)

KeyUtilsCopies == {"apiKeyUtils.js", "part_015"}

MaxKeyLen == 3

MaxReads == 2

KeyTokens == {"sk", ":"}

\* the keys a caller passes to storeApiKey, the empty string among them
ApiKeys == SeqsUpTo(KeyTokens, MaxKeyLen)

EnvApiKey == Str(<<"sk-env">>)

\* localStorage.getItem(name)
getItem(ls, name) == ls[name]

\* localStorage.setItem(name, value)
setItem(ls, name, value) == [ls EXCEPT ![name] = value]

\* localStorage.removeItem(name)
removeItem(ls, name) == [ls EXCEPT ![name] = Null]

\* localStorage.getItem(KEY_SOURCE) || 'env'
getKeySource(ls) ==
    IF Falsy(getItem(ls, "api_key_source")) THEN <<"env">>
    ELSE getItem(ls, "api_key_source").v

\* String.prototype.split(':')
RECURSIVE SplitOn(_, _, _)
SplitOn(s, sep, cur) ==
    IF s = <<>> THEN <<cur>>
    ELSE IF Head(s) = sep THEN <<cur>> \o SplitOn(Tail(s), sep, <<>>)
    ELSE SplitOn(Tail(s), sep, Append(cur, Head(s)))

\* String.prototype.includes(':')
Includes(s, tok) == \E i \in 1..Len(s) : s[i] = tok

\* checkEnvApiKey: process.env[ENV_KEY], or null
checkEnvApiKey(env) == IF Falsy(env) THEN Null ELSE env

\* getApiKey of apiKeyUtils.js: what it returns, and localStorage after it
getApiKeyPlain(ls) ==
    LET storedKey == getItem(ls, "openai_api_key") IN
    IF getKeySource(ls) = <<"localStorage">> /\ ~Falsy(storedKey)
    THEN [value |-> storedKey, storage |-> ls]
    ELSE [value |-> Undef, storage |-> ls]

\* getApiKey of part_015, with its migration of keys that hold a ':'
getApiKeyMigrating(ls, env) ==
    LET storedKey == getItem(ls, "openai_api_key") IN
    IF getKeySource(ls) = <<"localStorage">> /\ ~Falsy(storedKey)
    THEN IF Includes(storedKey.v, ":")
         THEN LET newKey == Str(SplitOn(storedKey.v, ":", <<>>)[2]) IN
              [value |-> newKey, storage |-> setItem(ls, "openai_api_key", newKey)]
         ELSE [value |-> storedKey, storage |-> ls]
    ELSE [value |-> checkEnvApiKey(env), storage |-> ls]

getApiKey(copy, ls, env) ==
    IF copy = "part_015" THEN getApiKeyMigrating(ls, env) ELSE getApiKeyPlain(ls)

\* hasApiKey: getItem(STORAGE_KEY) !== null in apiKeyUtils.js,
\* !!getItem(STORAGE_KEY) in part_015
hasApiKey(copy, ls) ==
    IF copy = "part_015" THEN ~Falsy(getItem(ls, "openai_api_key"))
    ELSE getItem(ls, "openai_api_key").t # "null"

InitCredential ==
    /\ helpers \in HelperCopies
    /\ InitApp
    /\ InitNoCalls
    /\ InitPure
    /\ InitProcessIdle
    /\ keyUtils \in KeyUtilsCopies
    /\ localStorage = EmptyStorage
    /\ \/ envKey = Null
       \/ envKey = EnvApiKey
    /\ lastStored = NoStore
    /\ lastRead = NoRead

ApiKeyValidationError(subtype, cause) ==
    [class |-> "ApiKeyValidationError", type |-> subtype, cause |-> cause]

\* handleApiKeyOperation: whatever the operation throws is thrown again as
\* new ApiKeyError(error.message), of type GENERAL_ERROR
handleApiKeyOperation(outcome) ==
    IF outcome.class = "none" THEN outcome
    ELSE ApiKeyError("GENERAL_ERROR", outcome.cause)

\* storeApiKey(apiKey): an empty key throws before anything is stored
StoreApiKey ==
    /\ \E apiKey \in ApiKeys :
        IF apiKey = <<>>
        THEN /\ lastStored' = [lastStored EXCEPT !.thrown =
                    handleApiKeyOperation(
                        ApiKeyValidationError("VALIDATION_MISSING_KEY", "API key is required"))]
             /\ UNCHANGED <<localStorage, lastRead>>
        ELSE /\ localStorage' =
                    setItem(setItem(localStorage, "openai_api_key", Str(apiKey)),
                            "api_key_source", Str(<<"localStorage">>))
             /\ lastStored' = [op |-> "store", key |-> Str(apiKey), thrown |-> NoError]
             /\ lastRead' = NoRead
    /\ UNCHANGED <<pipelineVars, limiterVars, pureVars, processVars, keyUtils, envKey, appVars>>

GetApiKey ==
    /\ lastRead.reads < MaxReads
    /\ LET got == getApiKey(keyUtils, localStorage, envKey) IN
        /\ localStorage' = got.storage
        /\ lastRead' = [called |-> TRUE, value |-> got.value, reads |-> lastRead.reads + 1]
    /\ UNCHANGED <<pipelineVars, limiterVars, pureVars, processVars, keyUtils, envKey, appVars,
                   lastStored>>

RemoveApiKey ==
    /\ localStorage' = removeItem(removeItem(localStorage, "openai_api_key"),
                                  "api_key_source")
    /\ lastStored' = [op |-> "remove", key |-> Null, thrown |-> NoError]
    /\ lastRead' = NoRead
    /\ UNCHANGED <<pipelineVars, limiterVars, pureVars, processVars, keyUtils, envKey, appVars>>

\* clearApiKey: both items removed, then the page reloads
ClearApiKey ==
    /\ localStorage' = removeItem(removeItem(localStorage, "openai_api_key"),
                                  "api_key_source")
    /\ lastStored' = [op |-> "clear", key |-> Null, thrown |-> NoError]
    /\ lastRead' = NoRead
    /\ UNCHANGED <<pipelineVars, limiterVars, pureVars, processVars, keyUtils, envKey, appVars>>

NextCredential == StoreApiKey \/ GetApiKey \/ RemoveApiKey \/ ClearApiKey

SpecCredential == InitCredential /\ [][NextCredential]_vars

\* C20: every getApiKey() after storeApiKey(k), up to the next store or
\* remove, returns k; after removeApiKey(), with no key in the environment,
\* getApiKey() returns no key.
C20_StoredKeyRoundTrips ==
    /\ (lastStored.op = "store" /\ lastRead.called) =>
            /\ lastRead.value.t = "string"
            /\ lastRead.value.v = lastStored.key.v
    /\ (lastStored.op = "remove" /\ envKey.t = "null" /\ lastRead.called) =>
            lastRead.value.t \in {"undefined", "null"}

\* getApiKey() returns a non-empty key
ReturnsKey(copy, ls, env) ==
    getApiKey(copy, ls, env).value.t = "string" /\ getApiKey(copy, ls, env).value.v # <<>>

\* C28: with no key in the environment, after any storeApiKey, getApiKey,
\* removeApiKey and clearApiKey calls, hasApiKey() is true exactly when
\* getApiKey() returns a non-empty key, the key item and the key-source item
\* are both present or both absent, and a getApiKey() call changes neither
\* what hasApiKey() answers nor whether getApiKey() returns a key.
C28_HasKeyAgreesWithGetKey ==
    envKey.t = "null" =>
        /\ hasApiKey(keyUtils, localStorage) <=> ReturnsKey(keyUtils, localStorage, envKey)
        /\ (getItem(localStorage, "openai_api_key").t = "null")
                <=> (getItem(localStorage, "api_key_source").t = "null")
        /\ hasApiKey(keyUtils, getApiKey(keyUtils, localStorage, envKey).storage)
                <=> hasApiKey(keyUtils, localStorage)
        /\ ReturnsKey(keyUtils, getApiKey(keyUtils, localStorage, envKey).storage, envKey)
                <=> ReturnsKey(keyUtils, localStorage, envKey)

-----------------------------------------------------------------------------
(* utils/modelUtils.js: the selected model in localStorage.                *)

\* the own keys of OPENAI_MODELS
OPENAI_MODELS == {"gpt-4o-mini", "gpt-4-0613", "gpt-3.5-turbo-0125", "gpt-4o-2024-08-06"}

DEFAULT_MODEL == "gpt-4o-mini"

\* names every object inherits from Object.prototype
InheritedNames == {"constructor", "toString"}

\* the ids callers pass to storeModel
ModelArguments == OPENAI_MODELS \cup InheritedNames \cup {"", "gpt-5"}

\* OPENAI_MODELS[model]: the display name, an inherited function, or undefined
LookupModel(model) ==
    IF model \in OPENAI_MODELS THEN "string"
    ELSE IF model \in InheritedNames THEN "function"
    ELSE "undefined"

ModelError(type, cause) == [class |-> "ModelError", type |-> type, cause |-> cause]

ModelValidationError(subtype, cause) ==
    [class |-> "ModelValidationError", type |-> subtype, cause |-> cause]

\* handleModelOperation: whatever the operation throws is thrown again as
\* new ModelError(error.message), of type GENERAL_ERROR
handleModelOperation(outcome) ==
    IF outcome.class = "none" THEN outcome
    ELSE ModelError("GENERAL_ERROR", outcome.cause)

\* validateModel: the error it throws, NoError when it returns true
validateModel(model) ==
    handleModelOperation(
        IF model = "" THEN ModelValidationError("VALIDATION_MISSING_MODEL", "Model is required")
        ELSE IF LookupModel(model) = "undefined"
            THEN ModelValidationError("VALIDATION_INVALID_MODEL", "Invalid model selection")
        ELSE NoError)

StoreModel ==
    /\ \E model \in ModelArguments :
        LET thrown == handleModelOperation(validateModel(model)) IN
        mdl' = [mdl EXCEPT !.op = "storeModel", !.arg = model, !.before = mdl.item,
                           !.thrown = thrown,
                           !.item = IF thrown = NoError THEN Str(<<model>>) ELSE @,
                           !.lastStored = IF thrown = NoError THEN model ELSE @]
    /\ UNCHANGED <<pipelineVars, limiterVars, pureVars, credVars, processVars, clientVars, batchVars, viewVars>>

\* getModel: storedModel || DEFAULT_MODEL
GetModel ==
    /\ mdl' = [mdl EXCEPT !.op = "getModel", !.arg = "none", !.before = mdl.item,
                          !.thrown = NoError,
                          !.read = IF Falsy(mdl.item) THEN DEFAULT_MODEL ELSE mdl.item.v[1]]
    /\ UNCHANGED <<pipelineVars, limiterVars, pureVars, credVars, processVars, clientVars, batchVars, viewVars>>

ClearModel ==
    /\ mdl' = [mdl EXCEPT !.op = "clearModel", !.arg = "none", !.before = mdl.item,
                          !.thrown = NoError, !.item = Null, !.lastStored = "none"]
    /\ UNCHANGED <<pipelineVars, limiterVars, pureVars, credVars, processVars, clientVars, batchVars, viewVars>>

InitModel ==
    /\ helpers \in HelperCopies
    /\ InitNoCalls
    /\ InitUtils

NextModel == StoreModel \/ GetModel \/ ClearModel

SpecModel == InitModel /\ [][NextModel]_vars

\* C21: getModel() returns a key of OPENAI_MODELS, the id last stored or the
\* default when none is stored; storeModel with an id that is no key of
\* OPENAI_MODELS throws and leaves the stored model as it was.
C21_ModelIsRecognized ==
    /\ mdl.op = "getModel" =>
            /\ mdl.read \in OPENAI_MODELS
            /\ mdl.read = IF mdl.lastStored = "none" THEN DEFAULT_MODEL ELSE mdl.lastStored
    /\ (mdl.op = "storeModel" /\ mdl.arg \notin OPENAI_MODELS) =>
            /\ mdl.thrown.class # "none"
            /\ mdl.item.t = mdl.before.t
            /\ mdl.item.t = "string" => mdl.item.v = mdl.before.v

-----------------------------------------------------------------------------
(* formatResponse and its arguments. *)

\* C22: when a formatResponse call is over, whether it returned or threw,
\* the response and the schema it was given are what they were at the call.
C22_ArgumentsUntouched ==
    fmt.called =>
        /\ fmt.after.response = fmt.response
        /\ fmt.after.schema = fmt.schema

\* a call that threw after it had assigned a field
C22_Witness ==
    /\ fmt.called
    /\ ~fmt.result.ok
    /\ fmt.after.formatted # <<>>

-----------------------------------------------------------------------------
(* The delays between the attempts of a call. *)

\* the retry timer a failed attempt has just set, in milliseconds
ScheduledDelay(c) == operation'[c].timer * TickMs

\* an attempt of call c fails and a retry is scheduled
SchedulesRetry(c) == pc[c] = "awaiting" /\ pc'[c] = "backoff"

\* C23: the delay scheduled after failed attempt number a (from 0) is
\* min(maxTimeout, minTimeout * factor^a); with the analysis client's options
\* a new operation holds the delays 1000, 2000 and 4000 ms, and no delay is
\* longer than 5000 ms.
C23_BackoffDelays ==
    /\ [][\A c \in Calls :
            SchedulesRetry(c) =>
                LET a == operation[c].attempts - 1
                    power == retryOpts.minTimeout * Pow(retryOpts.factor, a)
                IN ScheduledDelay(c) =
                        IF power < retryOpts.maxTimeout THEN power ELSE retryOpts.maxTimeout]_vars
    /\ [](\A c \in Calls :
            /\ (retryOpts = AnalysisRetry /\ pc[c] = "awaiting" /\ operation[c].attempts = 1) =>
                    [i \in 1..3 |-> operation[c].timeouts[i] * TickMs] = <<1000, 2000, 4000>>
            /\ operation[c].timer * TickMs <= 5000
            /\ \A i \in 1..Len(operation[c].timeouts) : operation[c].timeouts[i] * TickMs <= 5000)

\* the third attempt of a call with the analysis client's options has failed
\* and its retry waits 4000 ms
C23_Witness ==
    \E c \in Calls :
        /\ retryOpts = AnalysisRetry
        /\ pc[c] = "backoff"
        /\ operation[c].attempts = 3
        /\ operation[c].timer * TickMs = 4000

-----------------------------------------------------------------------------
(* The provider clients: cachedClient of services/resumeProcessor.js and   *)
(* OpenAIClientFactory, with the key in localStorage changing under them.   *)

MaxEvents == 2

ClientKeys == {<<"sk-1">>, <<"sk-2">>}

\* a === b for keys that are strings, null or undefined
SameValue(a, b) == a.t = b.t /\ (a.t = "string" => a.v = b.v)

\* a cached client is returned whenever there is one
ReuseIfCached(cached, apiKey) == cached.t # "null"

\* !(!cachedClient || cachedClient.apiKey !== apiKey)
CanReuse(cached, apiKey) == cached.t # "null" /\ SameValue(cached, apiKey)

\* getOpenAIClient with a valid model: the client it returns, by its apiKey
getOpenAIClient(cached, apiKey) ==
    IF Falsy(apiKey)
    THEN [ok |-> FALSE, client |-> Null, cached |-> cached, reused |-> FALSE]
    ELSE IF CanReuse(cached, apiKey)
    THEN [ok |-> TRUE, client |-> cached, cached |-> cached, reused |-> TRUE]
    ELSE [ok |-> TRUE, client |-> apiKey, cached |-> apiKey, reused |-> FALSE]

\* the catch block of getClient that leaves the fields as they are
getClientFailedKeeping(f, name) == [f EXCEPT !.called = name, !.failed = TRUE]

\* the catch block of getClient
getClientFailed(f, name) ==
    [client |-> Null, currentApiKey |-> Null, called |-> name, failed |-> TRUE]

\* OpenAIClientFactory.getClient, called as name
getClient(f, name, stored, env) ==
    IF Falsy(stored) /\ Falsy(env) THEN getClientFailed(f, name)
    ELSE LET apiKey == IF Falsy(stored) THEN env ELSE stored IN
         IF f.client.t = "null" \/ ~SameValue(f.currentApiKey, apiKey)
         THEN [client |-> apiKey, currentApiKey |-> apiKey, called |-> name, failed |-> FALSE]
         ELSE [f EXCEPT !.called = name, !.failed = FALSE]

\* OpenAIClientFactory.reinitializeClient
reinitializeClient(f, stored, env) ==
    getClient([f EXCEPT !.client = Null, !.currentApiKey = Null],
              "reinitializeClient", stored, env)

InitClient ==
    /\ helpers \in HelperCopies
    /\ InitNoCalls
    /\ InitPure
    /\ InitProcessIdle
    /\ InitApp
    /\ keyUtils = "apiKeyUtils.js"
    /\ localStorage = EmptyStorage
    /\ \/ envKey = Null
       \/ envKey = EnvApiKey
    /\ lastStored = NoStore
    /\ lastRead = NoRead

\* this tab stores or removes the key: no storage event in this tab
ChangeKeyHere ==
    /\ \/ \E k \in ClientKeys :
            /\ localStorage' = setItem(setItem(localStorage, "openai_api_key", Str(k)),
                                       "api_key_source", Str(<<"localStorage">>))
            /\ lastStored' = [op |-> "store", key |-> Str(k), thrown |-> NoError]
       \/ /\ localStorage' = removeItem(removeItem(localStorage, "openai_api_key"),
                                        "api_key_source")
          /\ lastStored' = [op |-> "remove", key |-> Null, thrown |-> NoError]
    /\ lastRead' = NoRead
    /\ UNCHANGED <<pipelineVars, limiterVars, pureVars, processVars, keyUtils, envKey, appVars>>

\* another tab stores or removes the key: the change is in localStorage at
\* once, the storage event reaches this tab later
ChangeKeyElsewhere ==
    /\ events < MaxEvents
    /\ \/ \E k \in ClientKeys :
            /\ localStorage' = setItem(setItem(localStorage, "openai_api_key", Str(k)),
                                       "api_key_source", Str(<<"localStorage">>))
            /\ lastStored' = [op |-> "store", key |-> Str(k), thrown |-> NoError]
       \/ /\ localStorage' = removeItem(removeItem(localStorage, "openai_api_key"),
                                        "api_key_source")
          /\ lastStored' = [op |-> "remove", key |-> Null, thrown |-> NoError]
    /\ lastRead' = NoRead
    /\ events' = events + 1
    /\ UNCHANGED <<pipelineVars, limiterVars, pureVars, processVars, keyUtils, envKey,
                   modelVars, batchVars, viewVars, cachedClient, factory, request>>

\* the 'storage' listeners of resumeProcessor.js and of the factory
StorageEvent ==
    /\ events > 0
    /\ events' = events - 1
    /\ cachedClient' = Null
    /\ factory' = reinitializeClient(factory,
                    getApiKey(keyUtils, localStorage, envKey).value, envKey)
    /\ UNCHANGED <<pipelineVars, limiterVars, pureVars, processVars, credVars,
                   modelVars, batchVars, viewVars, request>>

\* requestFn starts: getOpenAIClient, then client.chat.completions.create
SendRequest ==
    /\ LET got == getOpenAIClient(cachedClient,
                    getApiKey(keyUtils, localStorage, envKey).value) IN
        /\ cachedClient' = got.cached
        /\ request' = [sent |-> got.ok, via |-> "getOpenAIClient", key |-> got.client,
                       stored |-> getItem(localStorage, "openai_api_key"),
                       cachedBefore |-> cachedClient, reused |-> got.reused]
    /\ UNCHANGED <<pipelineVars, limiterVars, pureVars, processVars, credVars,
                   modelVars, batchVars, viewVars, factory, events>>

\* a caller takes the factory's client for a request
FactoryGetClient ==
    /\ LET f == getClient(factory, "getClient",
                    getApiKey(keyUtils, localStorage, envKey).value, envKey) IN
        /\ factory' = f
        /\ request' = [sent |-> ~f.failed, via |-> "factory", key |-> f.client,
                       stored |-> getItem(localStorage, "openai_api_key"),
                       cachedBefore |-> factory.client,
                       reused |-> ~f.failed /\ factory.client.t # "null"
                                  /\ SameValue(factory.currentApiKey, f.currentApiKey)]
    /\ UNCHANGED <<pipelineVars, limiterVars, pureVars, processVars, credVars,
                   modelVars, batchVars, viewVars, cachedClient, events>>

\* the key forms call reinitializeClient after they stored a key
FactoryReinitialize ==
    /\ factory' = reinitializeClient(factory,
                    getApiKey(keyUtils, localStorage, envKey).value, envKey)
    /\ UNCHANGED <<pipelineVars, limiterVars, pureVars, processVars, credVars,
                   modelVars, batchVars, viewVars, cachedClient, request, events>>

NextClient ==
    \/ ChangeKeyHere
    \/ ChangeKeyElsewhere
    \/ StorageEvent
    \/ SendRequest
    \/ FactoryGetClient
    \/ FactoryReinitialize

SpecClient == InitClient /\ [][NextClient]_vars

C27_FactoryConsistent ==
    /\ (factory.client.t # "null") <=> (factory.currentApiKey.t # "null")
    /\ SameValue(factory.client, factory.currentApiKey)
    /\ factory.failed => (factory.client.t = "null" /\ factory.currentApiKey.t = "null")

\* a getClient that threw after the key of a working factory was removed
C27_Witness ==
    /\ factory.called = "getClient"
    /\ factory.failed
    /\ request.via = "factory"
    /\ request.cachedBefore.t = "string"

-----------------------------------------------------------------------------
(* batchProcessResumes: processResume for one file after the other.        *)

MaxBatch == 2

\* what the analysis of a valid file can throw in every attempt
AnalysisErrors ==
    {ApiKeyError("RATE_LIMIT_ERROR", "status 429"),
     PlainError("Missing required tool calls")}

\* how processResume ends when every attempt throws e: the catch block, again
\* after every retry
RECURSIVE SettleAs(_, _, _)
SettleAs(copy, op, e) ==
    LET a == ProcessCatch(copy, op, e) IN
    IF a.act = "retry" THEN SettleAs(copy, Retry(op), e) ELSE a

\* the ways processResume(f) can end when a key is stored: resolve, reject,
\* or throw in the attempt callback, which leaves its promise pending
ProcessEnds(copy, f) ==
    IF ValidateFile(f) # "ok"
    THEN {SettleAs(copy, createRetryOperation(NoOptions), PlainError(ValidateFile(f)))}
    ELSE {[act |-> "resolve", error |-> NoError]}
         \cup {SettleAs(copy, createRetryOperation(NoOptions), e) : e \in AnalysisErrors}

InitBatch ==
    /\ helpers \in HelperCopies
    /\ InitNoCalls
    /\ InitPure
    /\ keyUtils = "apiKeyUtils.js"
    /\ localStorage = StoredKey
    /\ envKey = Null
    /\ lastStored = [op |-> "store", key |-> StoredKey.openai_api_key, thrown |-> NoError]
    /\ lastRead = NoRead
    /\ InitApp
    /\ processor \in ProcessorCopies
    /\ file = NoFile
    /\ jobDescription = <<"Engineer">>
    /\ rpc = "idle"
    /\ retryOp = NoOperation
    /\ result = Pending
    /\ steps = <<>>
    /\ ui = InitialUi

BatchProcessResumes ==
    /\ batch.state = "idle"
    /\ \E resumeFiles \in SeqsUpTo(Files, MaxBatch) :
        batch' = [NoBatch EXCEPT !.state = "running", !.files = resumeFiles, !.index = 1]
    /\ UNCHANGED <<pipelineVars, limiterVars, pureVars, credVars, processVars,
                   modelVars, clientVars, viewVars>>

\* one turn of the loop: await processResume, then push to results or errors
BatchAwait ==
    /\ batch.state = "running"
    /\ batch.index <= Len(batch.files)
    /\ \E a \in ProcessEnds(processor, batch.files[batch.index]) :
        LET filePath == batch.files[batch.index] IN
        batch' =
            IF a.act = "throw"
            THEN [batch EXCEPT !.state = "hung", !.ends = Append(@, a.act)]
            ELSE [batch EXCEPT
                    !.index = @ + 1,
                    !.ends = Append(@, a.act),
                    !.results = Append(@, [filePath |-> filePath,
                                           success |-> a.act = "resolve"]),
                    !.errors = IF a.act = "resolve" THEN @
                               ELSE Append(@, [filePath |-> filePath, error |-> a.error.cause])]
    /\ UNCHANGED <<pipelineVars, limiterVars, pureVars, credVars, processVars,
                   modelVars, clientVars, viewVars>>

BatchReturn ==
    /\ batch.state = "running"
    /\ batch.index > Len(batch.files)
    /\ batch' = [batch EXCEPT
            !.state = "returned",
            !.returned = [results |-> batch.results,
                          errors |-> IF Len(batch.errors) > 0 THEN "list" ELSE "null",
                          success |-> Len(batch.errors) = 0]]
    /\ UNCHANGED <<pipelineVars, limiterVars, pureVars, credVars, processVars,
                   modelVars, clientVars, viewVars>>

NextBatch == BatchProcessResumes \/ BatchAwait \/ BatchReturn

SpecBatch == InitBatch /\ [][NextBatch]_vars

\* the batch returned, or waits for a processResume that never settles
BatchOver == batch.state \in {"returned", "hung"}

\* C25: a batch ends by returning one entry per file, in input order, with
\* success exactly for the files whose processResume resolved, also after a
\* file that failed; success is true exactly when errors is null, which is
\* exactly when no file failed.
C25_BatchCoversEveryFile ==
    BatchOver =>
        /\ batch.state = "returned"
        /\ Len(batch.returned.results) = Len(batch.files)
        /\ \A i \in 1..Len(batch.files) :
                /\ batch.returned.results[i].filePath = batch.files[i]
                /\ batch.returned.results[i].success <=> (batch.ends[i] = "resolve")
        /\ batch.returned.success <=> (batch.returned.errors = "null")
        /\ batch.returned.success <=> (\A i \in 1..Len(batch.files) : batch.ends[i] = "resolve")

\* ---------------------------------------------------------------------------
\* AppContent (App.jsx): the selected file, the job description, the analysis
\* state and the processResume call handleSubmit awaits.  app.awaiting and
\* app.argument are the awaited call and the file it was given; app.settled
\* and app.fileKept record how the last call ended and whether
\* handleFileUpload ran since it was made.
\* ---------------------------------------------------------------------------

MaxFiles == 2

\* the File objects the user can pick, told apart by identity
UploadedFiles == {Obj(i) : i \in 1..MaxFiles}

\* scores of the responses processResume resolves with
AppScores == {0, 50, 100}

\* what processResume(file, jobDescription) resolves with; of is the file the
\* call was given
Response(uploadedFile, s) ==
    Obj([score |-> Num(s), feedback |-> Arr(<<>>), suggestions |-> Arr(<<>>),
         of |-> uploadedFile.v])

clearAnalysisStates(a) ==
    [a EXCEPT !.score = Null, !.analysisResponse = Null, !.feedback = Arr(<<>>),
              !.suggestions = Arr(<<>>), !.submissionError = Null]

handleFileUpload(a, uploadedFile) ==
    IF ~a.serviceInitialized
    THEN [clearAnalysisStates(a) EXCEPT
            !.uploadError = Str(<<"Services not initialized">>), !.file = Null]
    ELSE IF Falsy(uploadedFile)
    THEN [clearAnalysisStates(a) EXCEPT !.uploadError = Null, !.file = Null]
    ELSE [a EXCEPT !.uploadError = Null, !.file = uploadedFile]

\* the effect on [file, jobDescription]
isSubmitEnabled(a) == a.file.t # "null" /\ Trim(a.jobDescription) # <<>>

\* the catch and finally blocks of handleSubmit
SubmitFailed(a, message) ==
    [a EXCEPT !.submissionError = Str(<<message>>), !.score = Null,
              !.feedback = Arr(<<>>), !.suggestions = Arr(<<>>),
              !.isLoading = FALSE, !.awaiting = FALSE]

\* the render condition of the ScoreDisplay panel
Displayed(a) == ~Falsy(a.file) /\ ~Falsy(a.score) /\ ~Falsy(a.analysisResponse)

\* the mount effect
SetServiceInitialized ==
    /\ ~app.serviceInitialized
    /\ app' = [app EXCEPT !.serviceInitialized = TRUE]
    /\ UNCHANGED <<pipelineVars, limiterVars, pureVars, credVars, processVars,
                   modelVars, clientVars, batchVars>>

\* a file picked, or removed with onFileUpload(null)
AppHandleFileUpload ==
    /\ \E uploadedFile \in UploadedFiles \cup {Null} :
        app' = [handleFileUpload(app, uploadedFile) EXCEPT !.fileKept = FALSE]
    /\ UNCHANGED <<pipelineVars, limiterVars, pureVars, credVars, processVars,
                   modelVars, clientVars, batchVars>>

AppHandleJobDescription ==
    /\ \E description \in JobDescriptions \cup {<<>>} :
        /\ description # app.jobDescription
        /\ app' = [app EXCEPT !.jobDescription = description]
    /\ UNCHANGED <<pipelineVars, limiterVars, pureVars, credVars, processVars,
                   modelVars, clientVars, batchVars>>

\* the Analyze button (rendered when isSubmitEnabled, disabled while loading):
\* handleSubmit up to its await
AppHandleSubmit ==
    /\ isSubmitEnabled(app)
    /\ ~app.isLoading
    /\ app' = IF Falsy(app.file)
              THEN SubmitFailed(app, "Please upload a resume file")
              ELSE IF Trim(app.jobDescription) = <<>>
              THEN SubmitFailed(app, "Please provide a job description")
              ELSE [app EXCEPT !.isLoading = TRUE, !.submissionError = Null,
                               !.awaiting = TRUE, !.argument = app.file,
                               !.settled = "none", !.fileKept = TRUE]
    /\ UNCHANGED <<pipelineVars, limiterVars, pureVars, credVars, processVars,
                   modelVars, clientVars, batchVars>>

\* processResume resolved: the rest of the try block, then finally
AppResponseArrives ==
    /\ app.awaiting
    /\ \E s \in AppScores :
        app' = [app EXCEPT !.analysisResponse = Response(app.argument, s),
                           !.score = Response(app.argument, s).v.score,
                           !.feedback = OrElse(Response(app.argument, s).v.feedback, Arr(<<>>)),
                           !.suggestions = OrElse(Response(app.argument, s).v.suggestions, Arr(<<>>)),
                           !.isLoading = FALSE, !.awaiting = FALSE,
                           !.settled = "resolved"]
    /\ UNCHANGED <<pipelineVars, limiterVars, pureVars, credVars, processVars,
                   modelVars, clientVars, batchVars>>

\* processResume rejected: catch, then finally
AppResponseFails ==
    /\ app.awaiting
    /\ app' = [SubmitFailed(app, "Failed to process resume") EXCEPT !.settled = "rejected"]
    /\ UNCHANGED <<pipelineVars, limiterVars, pureVars, credVars, processVars,
                   modelVars, clientVars, batchVars>>

InitView ==
    /\ helpers \in HelperCopies
    /\ InitNoCalls
    /\ InitUtils

NextView ==
    \/ SetServiceInitialized
    \/ AppHandleFileUpload
    \/ AppHandleJobDescription
    \/ AppHandleSubmit
    \/ AppResponseArrives
    \/ AppResponseFails

SpecView == InitView /\ [][NextView]_vars

\* C26: whenever the result panel is displayed, the displayed result was
\* computed from the currently selected file.
C26_ResultIsOfSelectedFile ==
    Displayed(app) => app.analysisResponse.v.of = app.file.v

\* C30: once a submission's processResume call has resolved and loading has
\* ended, with the submitted file still selected, the result panel is displayed
\* with that result, for every score in [0,100].
C30_ResolvedResultIsDisplayed ==
    (app.settled = "resolved" /\ app.fileKept /\ ~app.isLoading) =>
        /\ Displayed(app)
        /\ app.analysisResponse.v.score = app.score

-----------------------------------------------------------------------------
(* The key store and the model store together, and APIKeyInput's catch.     *)

\* the catch block of APIKeyInput.handleSubmit: the message set for an error
FormMessage(err) ==
    IF err.class = "ApiKeyValidationError" THEN "Invalid API key"
    ELSE IF err.class = "ApiKeyStorageError" THEN "Failed to store API key"
    ELSE "An unexpected error occurred"

SameStorage(a, b) ==
    \A name \in DOMAIN a : SameValue(a[name], b[name])

InitStores ==
    /\ helpers = "apiHelpers.js"
    /\ InitNoCalls
    /\ InitUtils

NextStores == NextCredential \/ NextModel

SpecStores == InitStores /\ [][NextStores]_vars

\* a storeApiKey('') call, a storeModel call with an id that is no key of
\* OPENAI_MODELS
StoreApiKeyFails == lastStored.thrown = NoError /\ lastStored'.thrown # NoError

StoreModelFails ==
    /\ mdl'.op = "storeModel"
    /\ mdl'.arg \notin OPENAI_MODELS \cup {""}

\* C29: storeApiKey with an empty key throws an ApiKeyValidationError of type
\* VALIDATION_MISSING_KEY, for which the key-input form sets its validation
\* message, and storeModel with an id that is no key of OPENAI_MODELS throws a
\* ModelValidationError of type VALIDATION_INVALID_MODEL; both leave
\* localStorage as it was.
C29_ErrorKindReachesCaller ==
    [][/\ StoreApiKeyFails =>
            /\ lastStored'.thrown.class = "ApiKeyValidationError"
            /\ lastStored'.thrown.type = "VALIDATION_MISSING_KEY"
            /\ FormMessage(lastStored'.thrown) = "Invalid API key"
            /\ SameStorage(localStorage', localStorage)
       /\ StoreModelFails =>
            /\ mdl'.thrown.class = "ModelValidationError"
            /\ mdl'.thrown.type = "VALIDATION_INVALID_MODEL"
            /\ SameValue(mdl'.item, mdl.item)]_vars

====
